---- MODULE Spec2Model ----
(***************************************************************************)
(* A model of eos-health-check.py (version 1.2.3): the CommandExecutor     *)
(* (transport selection and run_command), the collection loop of main(),  *)
(* the parsers and the report.                                             *)
(*                                                                         *)
(* Python values are tagged records, so that a dict, a list, a str, a     *)
(* decoded number and None stay distinguishable the way they are at run    *)
(* time.  A str is the sequence of its lines, each line the sequence of   *)
(* its whitespace separated tokens ('' has no line; a str holding k       *)
(* newlines has k + 1 lines, the last one empty when the str ends with a  *)
(* newline); the amount of whitespace between two tokens is not kept.  A  *)
(* "jsontext" is the str that is the JSON document of a tree.  An         *)
(* operation that may raise returns Ret(v) or Raise(e).                   *)
(***************************************************************************)
EXTENDS Integers, Sequences, FiniteSets, TLC

VARIABLES
    pc,           \* position of main(): see the actions below
    mode,         \* CommandExecutor.mode: "local" | "remote"
    eapi_usable,  \* CommandExecutor.eapi_usable
    hostname,     \* CommandExecutor.hostname
    ssh_host,     \* CommandExecutor.ssh_host: the host string the user entered
    idx,          \* number of catalog entries the collection loop has taken
    raw_data,     \* main(): raw_data, key -> result of run_command
    health_data,  \* main(): health_data, or NoValue before the analysis
    report,       \* main(): summary_report, or NoValue
    log_file,     \* main(): log_file, or NoValue
    trace,        \* what the run has done so far: probes, fallbacks, commands sent
    uncaught,     \* the exception that reached main()'s handler, "" if none
    link,         \* "up", or "down" once the device stopped answering
    anomalies,    \* how many answers of the environment were not the nominal one
    tty,          \* sys.stdout.isatty() when the Colors class was built
    call          \* the last call of a function applied on its own (NoCall in a run)

\* The variables of a run of main()
run_vars == <<pc, mode, eapi_usable, hostname, ssh_host, idx, raw_data,
              health_data, report, log_file, trace, uncaught, link, anomalies>>
vars == <<run_vars, tty, call>>

-----------------------------------------------------------------------------
(* Python values *)

None == [t |-> "None"]
Num(n) == [t |-> "int", n |-> n]
Bool(b) == [t |-> "bool", b |-> b]
Text(lines) == [t |-> "str", lines |-> lines]
Str(s) == Text(IF s = "" THEN <<>> ELSE << <<s>> >>)
JsonText(tree) == [t |-> "jsontext", tree |-> tree]
List(items) == [t |-> "list", items |-> items]

\* A dict built from <<key, value>> pairs: keys keeps the insertion order
\* (what .items() iterates in), d maps each key to its value (the last
\* pair of a key wins, as in json.loads).
Dict(pairs) ==
    LET ks == {pairs[i][1] : i \in 1..Len(pairs)}
        last(k) == CHOOSE i \in 1..Len(pairs) :
                      /\ pairs[i][1] = k
                      /\ \A j \in 1..Len(pairs) : pairs[j][1] = k => j <= i
        first(k) == CHOOSE i \in 1..Len(pairs) :
                      /\ pairs[i][1] = k
                      /\ \A j \in 1..Len(pairs) : pairs[j][1] = k => i <= j
        firsts == {i \in 1..Len(pairs) : first(pairs[i][1]) = i}
        RECURSIVE order(_, _)
        order(i, acc) == IF i > Len(pairs) THEN acc
                         ELSE order(i + 1, IF i \in firsts
                                           THEN Append(acc, pairs[i][1]) ELSE acc)
    IN [t |-> "dict", keys |-> order(1, <<>>), d |-> [k \in ks |-> pairs[last(k)][2]]]

IsDict(v) == v.t = "dict"
IsStr(v) == v.t \in {"str", "jsontext"}
IsNumber(v) == v.t \in {"int", "bool"}
NumberOf(v) == IF v.t = "int" THEN v.n ELSE IF v.b THEN 1 ELSE 0

\* bool(v)
Truthy(v) ==
    CASE v.t = "None" -> FALSE
      [] v.t = "int" -> v.n # 0
      [] v.t = "bool" -> v.b
      [] v.t = "str" -> v.lines # <<>>
      [] v.t = "jsontext" -> TRUE
      [] v.t = "list" -> v.items # <<>>
      [] v.t = "dict" -> v.keys # <<>>

Ret(v) == [exc |-> "", val |-> v]
Raise(e) == [exc |-> e, val |-> None]
Raised(r) == r.exc # ""

\* v[k] with a str key k
Subscript(v, k) ==
    IF IsDict(v)
    THEN IF k \in DOMAIN v.d THEN Ret(v.d[k]) ELSE Raise("KeyError")
    ELSE Raise("TypeError")

\* v[0]
First(v) ==
    CASE v.t = "list" -> IF v.items = <<>> THEN Raise("IndexError") ELSE Ret(v.items[1])
      [] v.t = "dict" -> Raise("KeyError")
      [] v.t = "str" -> IF v.lines = <<>> THEN Raise("IndexError") ELSE Ret(Str("<char>"))
      [] v.t = "jsontext" -> Ret(Str("<char>"))
      [] OTHER -> Raise("TypeError")

\* v.get(k, default), v a dict (the callers below test IsDict first)
Get(v, k, default) == IF k \in DOMAIN v.d THEN v.d[k] ELSE default

\* json.loads(s) and json.dumps(tree)
json_loads(s) ==
    IF s.t = "jsontext" THEN Ret(s.tree)
    ELSE IF IsStr(s) THEN Raise("JSONDecodeError") ELSE Raise("TypeError")
json_dumps(tree) == JsonText(tree)

NoValue == [t |-> "unset"]
NoCall == [fn |-> "none"]

-----------------------------------------------------------------------------
(* str operations, on the lines of a str *)

Last(seq) == seq[Len(seq)]
Front(seq) == SubSeq(seq, 1, Len(seq) - 1)

RECURSIVE DropLeadingEmpty(_)
DropLeadingEmpty(ls) ==
    IF ls # <<>> /\ Head(ls) = <<>> THEN DropLeadingEmpty(Tail(ls)) ELSE ls
RECURSIVE DropTrailingEmpty(_)
DropTrailingEmpty(ls) ==
    IF ls # <<>> /\ Last(ls) = <<>> THEN DropTrailingEmpty(Front(ls)) ELSE ls

\* s.strip()
strip(ls) == DropTrailingEmpty(DropLeadingEmpty(ls))

\* s.splitlines(): the final line break starts no line
splitlines(ls) == IF Len(ls) >= 2 /\ Last(ls) = <<>> THEN Front(ls) ELSE ls

\* a + b where whitespace separates the two
Spaced(a, b) ==
    IF a = <<>> THEN b ELSE IF b = <<>> THEN a
    ELSE Front(a) \o <<Last(a) \o Head(b)>> \o Tail(b)

\* a + b where nothing separates the two: the last token of a and the first
\* token of b become one token
Glued(a, b) ==
    IF a = <<>> THEN b ELSE IF b = <<>> THEN a
    ELSE LET la == Last(a)
             fb == Head(b)
             joined == IF la = <<>> \/ fb = <<>> THEN la \o fb
                       ELSE Front(la) \o <<Last(la) \o Head(fb)>> \o Tail(fb)
         IN Front(a) \o <<joined>> \o Tail(b)

\* A literal without a line break, by its tokens; the line break; a blank
\* inside an f-string.
Lit(tokens) == <<tokens>>
NL == << <<>>, <<>> >>
SP == << <<" ">> >>

\* An f-string (or a + chain) by its pieces, SP where a blank separates two
\* pieces.
RECURSIVE FStrFrom(_, _, _, _)
FStrFrom(pieces, i, acc, spaced) ==
    IF i > Len(pieces) THEN acc
    ELSE IF pieces[i] = SP THEN FStrFrom(pieces, i + 1, acc, TRUE)
    ELSE IF pieces[i] = <<>> THEN FStrFrom(pieces, i + 1, acc, spaced)
    ELSE FStrFrom(pieces, i + 1,
                  IF spaced THEN Spaced(acc, pieces[i]) ELSE Glued(acc, pieces[i]), FALSE)
FStr(pieces) == FStrFrom(pieces, 1, <<>>, FALSE)

\* sep.join(items), sep and the items given by their lines
RECURSIVE JoinFrom(_, _, _, _)
JoinFrom(sep, items, i, acc) ==
    IF i > Len(items) \/ Len(acc) < 0 THEN acc
    ELSE JoinFrom(sep, items, i + 1, Glued(Glued(acc, sep), items[i]))
Join(sep, items) == IF items = <<>> THEN <<>> ELSE JoinFrom(sep, items, 2, items[1])

\* The lines of a str; the JSON document of a tree is taken as one line
\* that holds none of the tokens the parsers look for.
LinesOf(v) == IF v.t = "str" THEN v.lines ELSE Lit(<<"<json document>">>)

\* One line of a str, as a str
LineStr(line) == Text(IF line = <<>> THEN <<>> ELSE <<line>>)

\* repr(v): a str between quotes with its line breaks escaped, a list and
\* a dict by their items (no str here holds a quote)
RECURSIVE ReprOf(_)
ReprOf(v) ==
    LET spaced(n, item(_)) ==
            LET RECURSIVE from(_, _)
                from(k, acc) == IF k > n \/ Len(acc) < 0 THEN acc
                                ELSE from(k + 1, FStr(<<acc, Lit(<<",">>), SP, item(k)>>))
            IN IF n = 0 THEN <<>> ELSE from(2, item(1))
        quoted(ls) == FStr(<<Lit(<<"'">>),
                             Join(Lit(<<"\\n">>), [k \in 1..Len(ls) |-> LineStr(ls[k]).lines]),
                             Lit(<<"'">>)>>)
    IN CASE v.t = "str" -> quoted(v.lines)
         [] v.t = "int" -> Lit(<<ToString(v.n)>>)
         [] v.t = "bool" -> Lit(<<IF v.b THEN "True" ELSE "False">>)
         [] v.t = "None" -> Lit(<<"None">>)
         [] v.t = "jsontext" -> Lit(<<"'<json document>'">>)
         [] v.t = "list" ->
              LET item(k) == ReprOf(v.items[k])
              IN FStr(<<Lit(<<"[">>), spaced(Len(v.items), item), Lit(<<"]">>)>>)
         [] v.t = "dict" ->
              LET item(k) == FStr(<<ReprOf(Str(v.keys[k])), Lit(<<":">>), SP, ReprOf(v.d[v.keys[k]])>>)
              IN FStr(<<Lit(<<"{">>), spaced(Len(v.keys), item), Lit(<<"}">>)>>)

\* str(v), as an f-string formats v
StrOf(v) ==
    CASE v.t = "str" -> v.lines
      [] v.t = "jsontext" -> Lit(<<"<json document>">>)
      [] OTHER -> ReprOf(v)

\* Tokens known to hold another str inside them (sub in token); a token
\* also holds itself.
SubstringTable ==
    { <<"found.", "found">>, <<"found:", "found">>, <<"PPID", "PID">>,
      <<"server=", "server">>, <<"-cvaddr=apiserver.arista.io:443", "server">>,
      <<"USERNAME", "USER">> }
TokenContains(token, sub) == token = sub \/ <<token, sub>> \in SubstringTable
LineContains(line, sub) == \E i \in 1..Len(line) : TokenContains(line[i], sub)
TextContains(ls, sub) == \E i \in 1..Len(ls) : LineContains(ls[i], sub)

\* Tokens known to end with, or to start with, another str.
SuffixTable == { <<"subtotal", "total">> }
PrefixTable == { <<"04", "0">>, <<"0K", "0">> }
TokenEndsWith(token, sub) == token = sub \/ <<token, sub>> \in SuffixTable
TokenStartsWith(token, sub) == token = sub \/ <<token, sub>> \in PrefixTable

\* A phrase of two or more tokens (such as "total 0") is in a str when its
\* tokens follow one another on one line: the first may end a longer token
\* and the last may start one.
LineHasPhrase(line, phrase) ==
    \E i \in 1..(Len(line) - Len(phrase) + 1) :
        \A j \in 1..Len(phrase) :
            IF j = 1 THEN TokenEndsWith(line[i], phrase[1])
            ELSE IF j = Len(phrase) THEN TokenStartsWith(line[i + j - 1], phrase[j])
            ELSE line[i + j - 1] = phrase[j]
TextHasPhrase(ls, phrase) == \E i \in 1..Len(ls) : LineHasPhrase(ls[i], phrase)

\* The Colors class: the escape codes on a terminal, '' otherwise.
Colors(name) == IF tty THEN Lit(<<"<" \o name \o ">">>) ELSE <<>>

\* Whether the JSON document of a tree holds the str k (as a key or inside
\* a string)
RECURSIVE Mentions(_, _)
Mentions(v, k) ==
    CASE v.t = "dict" -> k \in DOMAIN v.d \/ \E key \in DOMAIN v.d : Mentions(v.d[key], k)
      [] v.t = "list" -> \E i \in 1..Len(v.items) : Mentions(v.items[i], k)
      [] v.t = "str" -> TextContains(v.lines, k)
      [] OTHER -> FALSE

\* k in v, for a str k
KeyIn(k, v) ==
    CASE v.t = "dict" -> Ret(Bool(k \in DOMAIN v.d))
      [] v.t = "list" -> Ret(Bool(\E i \in 1..Len(v.items) : v.items[i] = Str(k)))
      [] v.t = "str" -> Ret(Bool(TextContains(v.lines, k)))
      [] v.t = "jsontext" -> Ret(Bool(Mentions(v.tree, k)))
      [] OTHER -> Raise("TypeError")

\* x > n
GreaterThan(x, n) ==
    IF IsNumber(x) THEN Ret(Bool(NumberOf(x) > n)) ELSE Raise("TypeError")

-----------------------------------------------------------------------------
(* CommandExecutor.run_command *)

\* A command text is the sequence of its tokens; "| json" is the token "|"
\* followed by the token "json".
CountJsonModifier(command) ==
    Cardinality({i \in 1..(Len(command) - 1) :
                    command[i] = "|" /\ command[i + 1] = "json"})

\* "| json" in command
HasJsonModifier(command) == CountJsonModifier(command) > 0

\* use_json after `if "| json" in command: use_json = False`
effective_use_json(command, use_json) ==
    IF HasJsonModifier(command) THEN FALSE ELSE use_json

\* What a missing `"| json" in command` test would hand to the transport.
full_command_always_append(command, use_json) ==
    command \o (IF use_json THEN <<"|", "json">> ELSE <<>>)

\* full_command = f"{command} {'| json' if use_json else ''}"
full_command(command, use_json) ==
    command \o (IF effective_use_json(command, use_json) THEN <<"|", "json">> ELSE <<>>)

\* The transport run_command goes through.
Transport(self) ==
    IF self.mode = "local" THEN "Local"
    ELSE IF self.eapi_usable THEN "RemoteAPI" ELSE "RemoteShell"

\* The exceptions run_command's except clause names, with their subclasses
\* (HTTPError is a URLError, UnicodeDecodeError and JSONDecodeError are
\* ValueErrors).
CaughtByRunCommand ==
    {"CalledProcessError", "TimeoutExpired", "JSONDecodeError", "URLError",
     "HTTPError", "ValueError", "UnicodeDecodeError"}

\* subprocess.run(..., capture_output=True, text=True, check=True, timeout=60)
\* followed by output = result.stdout.  resp is what the child did:
\* [kind |-> "stdout", out |-> text] or the exception subprocess.run raises.
subprocess_output(resp) ==
    IF resp.kind = "stdout" THEN Ret(resp.out) ELSE Raise(resp.kind)

\* An envelope carrying 'error' whose structured detail (error.data[0]) is
\* returned as the payload: the behaviour the executor does not have.
eapi_error_surfacing_detail(eapi_output) ==
    LET err == Subscript(eapi_output, "error")
        data == IF Raised(err) THEN err ELSE Subscript(err.val, "data")
        detail == IF Raised(data) THEN data ELSE First(data.val)
    IN IF Raised(detail) THEN Raise("ValueError") ELSE Ret(json_dumps(detail.val))

\* raise ValueError(f"eAPI error: {eapi_output['error']['message']}")
eapi_error(eapi_output) ==
    LET err == Subscript(eapi_output, "error")
        msg == IF Raised(err) THEN err ELSE Subscript(err.val, "message")
    IN IF Raised(msg) THEN msg ELSE Raise("ValueError")

\* The body of `with urllib.request.urlopen(...) as response:`: resp is
\* [kind |-> "body", out |-> the decoded body] or the exception urlopen,
\* response.read() or .decode() raises.
eapi_output_of(use_json, resp) ==
    IF resp.kind # "body" THEN Raise(resp.kind)
    ELSE LET loaded == json_loads(resp.out) IN
         IF Raised(loaded) THEN loaded
         ELSE LET eapi_output == loaded.val
                  has_error == KeyIn("error", eapi_output)
              IN IF Raised(has_error) THEN has_error
                 ELSE IF has_error.val.b THEN eapi_error(eapi_output)
                 ELSE LET result == Subscript(eapi_output, "result")
                          first == IF Raised(result) THEN result ELSE First(result.val)
                      IN IF Raised(first) THEN first
                         ELSE IF use_json THEN Ret(json_dumps(first.val))
                         ELSE Subscript(first.val, "output")

\* run_command(self, command, use_json) when the transport answers resp:
\* Ret(value), Ret(None) for a caught failure, or the exception that escapes.
run_command(self, command, use_json, resp) ==
    LET uj == effective_use_json(command, use_json)
        output == IF Transport(self) = "RemoteAPI"
                  THEN eapi_output_of(uj, resp)
                  ELSE subprocess_output(resp)
        returned == IF Raised(output) THEN output
                    ELSE IF uj THEN json_loads(output.val) ELSE output
    IN IF Raised(returned) /\ returned.exc \in CaughtByRunCommand
       THEN Ret(None) ELSE returned

\* The command string handed to the transport: full_command to the CLI
\* bridge and to ssh, the caller's command in the eAPI request.
sent_command(self, command, use_json) ==
    IF Transport(self) = "RemoteAPI" THEN command ELSE full_command(command, use_json)

-----------------------------------------------------------------------------
(* The parsers *)

Abs(n) == IF n < 0 THEN -n ELSE n

\* f"{x:.2f}" for a float x of magnitude a hundredths; a negative float keeps
\* its sign even when it rounds to zero.
Format2(negative, a) ==
    (IF negative THEN "-" ELSE "") \o ToString(a \div 100) \o "."
    \o (IF a % 100 < 10 THEN "0" ELSE "") \o ToString(a % 100)

\* |n / d| in hundredths for d a power of two: the float n / d is then exact
\* and f"{x:.2f}" rounds it to the nearest, a tie to the even neighbour.
RatioHundredths(n, d) ==
    LET a == Abs(n)
        r1 == (a % d) * 10
        r2 == (r1 % d) * 10
        down == (a \div d) * 100 + (r1 \div d) * 10 + (r2 \div d)
    IN down + (IF \/ 2 * (r2 % d) > d
                  \/ (2 * (r2 % d) = d /\ down % 2 = 1) THEN 1 ELSE 0)

\* f"{kb / 1024 / 1024:.2f}"
GbText(kb) == Format2(kb < 0, RatioHundredths(kb, 1048576))

\* Python's float (IEEE 754 binary64) keeps 53 significant bits.
Significand == 53
\* A float is held as the bits of n in n * 2^-FracBits, least significant
\* first: a quotient of two integers below 2^30 is at least 2^-30, so its 53
\* bits and the bits that decide the rounding lie above 2^-FracBits.
FracBits == 30 + Significand + 7
BitWidth == FracBits + 50

RECURSIVE Pow2(_)
Pow2(k) == IF k = 0 THEN 1 ELSE 2 * Pow2(k - 1)
BitOfInt(n, j) == IF j > 30 THEN 0 ELSE (n \div Pow2(j)) % 2
UnitAt(g) == [i \in 1..BitWidth |-> IF i = g THEN 1 ELSE 0]
FloatOne == UnitAt(FracBits + 1)

\* One place of a digit-by-digit computation carried from place to place:
\* the bit written at place i and the value carried on, for the long
\* division of a remainder by d, the addition, the subtraction (x >= y) and
\* the product by a small integer m.
StepBit(op, x, y, i, s) ==
    CASE op = "divide" -> (2 * s) \div y
      [] op = "add" -> (x[i] + y[i] + s) % 2
      [] op = "subtract" -> (x[i] - y[i] - s + 2) % 2
      [] op = "times" -> (x[i] * y + s) % 2
StepCarry(op, x, y, i, s) ==
    CASE op = "divide" -> (2 * s) % y
      [] op = "add" -> (x[i] + y[i] + s) \div 2
      [] op = "subtract" -> IF x[i] - y[i] - s < 0 THEN 1 ELSE 0
      [] op = "times" -> (x[i] * y + s) \div 2

\* The places i..hi, then the places lo..n a dozen at a time
RECURSIVE ScanBlock(_, _, _, _, _, _, _)
ScanBlock(op, x, y, i, hi, s, acc) ==
    IF i > hi \/ s < 0 \/ Len(acc) < 0 THEN [bits |-> acc, carry |-> s]
    ELSE ScanBlock(op, x, y, i + 1, hi, StepCarry(op, x, y, i, s),
                   Append(acc, StepBit(op, x, y, i, s)))
RECURSIVE Scan(_, _, _, _, _, _, _)
Scan(op, x, y, lo, n, s, acc) ==
    IF lo > n \/ s < 0 \/ Len(acc) < 0 THEN [bits |-> acc, carry |-> s]
    ELSE LET hi == IF lo + 11 < n THEN lo + 11 ELSE n
             block == ScanBlock(op, x, y, lo, hi, s, <<>>)
         IN Scan(op, x, y, hi + 1, n, block.carry, acc \o block.bits)

\* a / d (a >= 0, d > 0) before rounding: its bits, and whether anything is
\* left after them
Quotient(a, d) ==
    LET f == Scan("divide", <<>>, d, 1, FracBits, a % d, <<>>)
    IN [bits |-> [i \in 1..BitWidth |->
                     IF i <= FracBits THEN f.bits[FracBits + 1 - i]
                     ELSE BitOfInt(a \div d, i - FracBits - 1)],
        sticky |-> f.carry # 0]

BitsAdd(x, y) == Scan("add", x, y, 1, BitWidth, 0, <<>>).bits
BitsSub(x, y) == Scan("subtract", x, y, 1, BitWidth, 0, <<>>).bits
BitsTimes(x, m) == Scan("times", x, m, 1, BitWidth, 0, <<>>).bits

\* The place of the leading bit, 0 for zero
TopBit(x) ==
    LET ones == {i \in 1..BitWidth : x[i] = 1}
    IN IF ones = {} THEN 0 ELSE CHOOSE i \in ones : \A j \in ones : j <= i

BitsGeq(x, y) ==
    \/ x = y
    \/ LET differ == {i \in 1..BitWidth : x[i] # y[i]}
       IN x[CHOOSE i \in differ : \A j \in differ : j <= i] = 1

\* The nearest float to x (to x and a little more when sticky), a tie to the
\* even significand
RoundToFloat(x, sticky) ==
    LET g == TopBit(x) - Significand
    IN IF g <= 0 THEN x
       ELSE LET rest == sticky \/ \E i \in 1..(g - 1) : x[i] = 1
                kept == [i \in 1..BitWidth |-> IF i > g THEN x[i] ELSE 0]
            IN IF x[g] = 1 /\ (rest \/ x[g + 1] = 1)
               THEN BitsAdd(kept, UnitAt(g + 1)) ELSE kept

\* The integer part of x
RECURSIVE IntegerPartFrom(_, _)
IntegerPartFrom(x, i) ==
    IF i > BitWidth THEN 0 ELSE x[i] + 2 * IntegerPartFrom(x, i + 1)
IntegerPart(x) == IntegerPartFrom(x, FracBits + 1)

\* The float (1 - free / total) * 100 without its sign (total > 0)
UsedPercentFloat(free, total) ==
    LET q == Quotient(Abs(free), total)
        ratio == RoundToFloat(q.bits, q.sticky)
        rest == IF free < 0 THEN BitsAdd(FloatOne, ratio)
                ELSE IF BitsGeq(FloatOne, ratio) THEN BitsSub(FloatOne, ratio)
                ELSE BitsSub(ratio, FloatOne)
    IN RoundToFloat(BitsTimes(RoundToFloat(rest, FALSE), 100), FALSE)

\* f"{x:.2f}" of a float x >= 0 in hundredths: x rounded to the nearest
\* hundredth, a tie to the even one
HundredthsOf(x) ==
    LET h == BitsTimes(x, 100)
        down == IntegerPart(h)
    IN down + (IF /\ h[FracBits] = 1
                  /\ \/ \E i \in 1..(FracBits - 1) : h[i] = 1
                     \/ down % 2 = 1
               THEN 1 ELSE 0)

\* f"{(1 - free / total) * 100:.2f}" (total > 0)
UsedPercentText(free, total) ==
    Format2(free > total, HundredthsOf(UsedPercentFloat(free, total)))

parse_system_summary(data) ==
    IF ~Truthy(data)
    THEN Ret([error |-> Text(Lit(<<"Could", "not", "retrieve", "version", "information.">>))])
    ELSE IF ~IsDict(data) THEN Raise("AttributeError")
    ELSE LET mem_total_kb == Get(data, "memTotal", Num(0))
             mem_free_kb == Get(data, "memFree", Num(0))
         IN IF ~IsNumber(mem_total_kb) \/ ~IsNumber(mem_free_kb) THEN Raise("TypeError")
            ELSE LET total == NumberOf(mem_total_kb)
                     free == NumberOf(mem_free_kb)
                 IN Ret([model |-> Get(data, "modelName", Str("N/A")),
                         serial |-> Get(data, "serialNumber", Str("N/A")),
                         version |-> Get(data, "version", Str("N/A")),
                         uptime |-> Get(data, "uptime", Num(0)),
                         mem_total_gb |-> Str(GbText(total)),
                         mem_free_gb |-> Str(GbText(free)),
                         mem_used_percent |->
                             Str(IF total > 0 THEN UsedPercentText(free, total)
                                 ELSE "0.00")])

\* Tokens made of digits and dots only: what ([\d\.]+) can match between
\* two blanks.
DigitDotTokens == {"0.0", "5.9", "74.9", "75.0", "89.9", "90.0", "100.0", "1.2.3"}
\* Tokens that start with "us".
UsTokens == {"us", "us,"}

\* The tokens of a str in reading order, each with the index of its line.
RECURSIVE FlatFrom(_, _, _)
FlatFrom(ls, i, acc) ==
    IF i > Len(ls) THEN acc
    ELSE FlatFrom(ls, i + 1, acc \o [j \in 1..Len(ls[i]) |-> [tok |-> ls[i][j], ln |-> i]])
Flat(ls) == FlatFrom(ls, 1, <<>>)

\* re.search(r"%Cpu\(s\):\s+([\d\.]+) us", output): the group of the first
\* match, or "" when there is none
cpu_match(ls) ==
    LET f == Flat(ls)
        hits == {i \in 1..(Len(f) - 2) :
                    /\ f[i].tok = "%Cpu(s):"
                    /\ f[i + 1].tok \in DigitDotTokens
                    /\ f[i + 2].ln = f[i + 1].ln
                    /\ f[i + 2].tok \in UsTokens}
    IN IF hits = {} THEN ""
       ELSE f[(CHOOSE i \in hits : \A k \in hits : i <= k) + 1].tok

\* The five lines under the header as top_processes
RECURSIVE top_processes(_, _, _)
top_processes(process_lines, i, acc) ==
    IF i > Len(process_lines) THEN acc
    ELSE LET parts == process_lines[i]
         IN top_processes(process_lines, i + 1,
                IF Len(parts) >= 12
                THEN Append(acc, [pid |-> Str(parts[1]), user |-> Str(parts[2]),
                                  cpu |-> Str(parts[9]), mem |-> Str(parts[10]),
                                  command |-> Str(parts[12])])
                ELSE acc)

parse_cpu_status(output) ==
    IF ~Truthy(output)
    THEN Ret([error |-> Text(Lit(<<"Could", "not", "retrieve", "CPU", "process", "information.">>))])
    ELSE IF ~IsStr(output) THEN Raise("TypeError")
    ELSE LET m == cpu_match(LinesOf(output))
             lines == splitlines(LinesOf(output))
             headers == {i \in 1..Len(lines) :
                            LineContains(lines[i], "PID") /\ LineContains(lines[i], "USER")}
             header_index == CHOOSE i \in headers : \A k \in headers : i <= k
             process_lines ==
                 IF headers = {} THEN <<>>
                 ELSE SubSeq(lines, header_index + 1,
                             IF header_index + 5 <= Len(lines) THEN header_index + 5
                             ELSE Len(lines))
         IN Ret([utilization |-> Str(IF m = "" THEN "N/A" ELSE m),
                 top_processes |-> top_processes(process_lines, 1, <<>>)])

\* An allow-list that also lets the root filesystem through: what the
\* parser does not use.
desired_mounts_with_root == {"/mnt/flash", "/var/log", "/var/core", "/"}

desired_mounts == {"/mnt/flash", "/var/log", "/var/core"}

\* parts[:-5]
AllButLast5(parts) == IF Len(parts) > 5 THEN SubSeq(parts, 1, Len(parts) - 5) ELSE <<>>

RECURSIVE usage_rows(_, _, _)
usage_rows(rows, i, usage_data) ==
    IF i > Len(rows) THEN usage_data
    ELSE LET parts == rows[i]
             n == Len(parts)
         IN usage_rows(rows, i + 1,
                IF parts # <<>> /\ parts[n] \in desired_mounts /\ n >= 5
                THEN [m \in DOMAIN usage_data \cup {parts[n]} |->
                        IF m = parts[n]
                        THEN [fs_device |-> Text(IF n > 5 THEN Lit(AllButLast5(parts)) ELSE <<>>),
                              size |-> Str(parts[n - 4]), used |-> Str(parts[n - 3]),
                              avail |-> Str(parts[n - 2]), use_pct |-> Str(parts[n - 1])]
                        ELSE usage_data[m]]
                ELSE usage_data)

parse_filesystem_usage(output) ==
    IF ~Truthy(output)
    THEN Ret([error |-> Text(Lit(<<"Could", "not", "retrieve", "filesystem", "usage.">>))])
    ELSE IF ~IsStr(output) THEN Raise("AttributeError")
    ELSE LET lines == splitlines(strip(LinesOf(output)))
         IN Ret(usage_rows(IF lines = <<>> THEN <<>> ELSE Tail(lines), 1, <<>>))

\* v.items() of a value that should be a dict: the keys in order
ItemsOf(v) == IF IsDict(v) THEN Ret(v.keys) ELSE Raise("AttributeError")

\* a > n or b > n or ..., left to right, stopping at the first that holds
RECURSIVE AnyGreaterFrom(_, _, _)
AnyGreaterFrom(xs, n, i) ==
    IF i > Len(xs) THEN Ret(Bool(FALSE))
    ELSE LET c == GreaterThan(xs[i], n)
         IN IF Raised(c) \/ c.val.b THEN c ELSE AnyGreaterFrom(xs, n, i + 1)
AnyGreater(xs, n) == AnyGreaterFrom(xs, n, 1)

NoCoreFiles == Text(Lit(<<"No", "core", "files", "found.">>))
NoAgentCrashes == Text(Lit(<<"No", "agent", "crashes", "found.">>))
NoPciErrors == Text(Lit(<<"No", "PCI", "errors", "found.">>))

\* A core-dump finding stamped with the time it was made: the parser reading
\* the clock (datetime.utcnow()), which parse_system_errors does not do.
core_dumps_stamped_with_time(core_output) ==
    IF ~Truthy(core_output) THEN Ret(Text(Lit(<<"No", "core", "files", "at">> \o call.now)))
    ELSE Ret(Text(Lit(<<"Core", "files", "checked", "at">> \o call.now)))

\* errors["core_dumps"]
core_dumps(core_output) ==
    IF ~Truthy(core_output) THEN Ret(NoCoreFiles)
    ELSE IF core_output.t \in {"int", "bool"} THEN Raise("TypeError")
    ELSE IF core_output.t = "list"
         THEN IF \E i \in 1..Len(core_output.items) :
                    core_output.items[i] \in {Text(Lit(<<"total", "0">>)), Str("total 0")}
              THEN Ret(NoCoreFiles) ELSE Raise("AttributeError")
    ELSE IF core_output.t = "dict"
         THEN IF "total 0" \in DOMAIN core_output.d
              THEN Ret(NoCoreFiles) ELSE Raise("AttributeError")
    ELSE IF ~IsStr(core_output) THEN Raise("AttributeError")
    ELSE IF /\ ~TextHasPhrase(LinesOf(core_output), <<"total", "0">>)
            /\ Len(splitlines(LinesOf(core_output))) > 1
         THEN Ret(Text(FStr(<<Lit(<<"Core", "files", "found:">>), NL, LinesOf(core_output)>>)))
         ELSE Ret(NoCoreFiles)

\* errors["agent_crashes"]
agent_crashes(agent_output) ==
    IF ~Truthy(agent_output) THEN Ret(NoAgentCrashes)
    ELSE IF ~IsStr(agent_output) THEN Raise("AttributeError")
    ELSE LET stripped == strip(LinesOf(agent_output))
             lines == splitlines(stripped)
             crash_count == Cardinality({i \in 1..Len(lines) : lines[i] # <<>>})
         IN IF stripped = <<>> THEN Ret(NoAgentCrashes)
            ELSE Ret(Text(Lit(<<"Found", ToString(crash_count), "agent", "crash", "report(s).">>)))

\* errors["syslog_criticals"]
syslog_criticals(syslog_output) ==
    IF ~Truthy(syslog_output) THEN Ret(<<>>)
    ELSE IF ~IsStr(syslog_output) THEN Raise("AttributeError")
    ELSE LET lines == splitlines(strip(LinesOf(syslog_output)))
         IN Ret([i \in 1..Len(lines) |-> LineStr(lines[i])])

\* The loop over pci_output['pciIds'].items()
RECURSIVE pci_error_list(_, _, _)
pci_error_list(ids, i, acc) ==
    IF i > Len(ids.keys) THEN Ret(acc)
    ELSE LET pci_id == ids.keys[i]
             device_details == ids.d[pci_id]
         IN IF ~IsDict(device_details) THEN Raise("AttributeError")
            ELSE LET corr_err == Get(device_details, "correctableErrors", Num(0))
                     non_fatal_err == Get(device_details, "nonFatalErrors", Num(0))
                     fatal_err == Get(device_details, "fatalErrors", Num(0))
                     any == AnyGreater(<<corr_err, non_fatal_err, fatal_err>>, 0)
                     device_name == Get(device_details, "name", Str(pci_id))
                     error_string ==
                         FStr(<<Lit(<<"Device">>), SP, StrOf(device_name), Lit(<<":">>), SP,
                                Lit(<<"Correctable=">>), StrOf(corr_err), Lit(<<",">>), SP,
                                Lit(<<"NonFatal=">>), StrOf(non_fatal_err), Lit(<<",">>), SP,
                                Lit(<<"Fatal=">>), StrOf(fatal_err)>>)
                 IN IF Raised(any) THEN any
                    ELSE pci_error_list(ids, i + 1,
                            IF any.val.b THEN Append(acc, error_string) ELSE acc)

\* errors["pci_errors"]
pci_errors(pci_output) ==
    IF ~Truthy(pci_output) THEN Ret(NoPciErrors)
    ELSE LET has == KeyIn("pciIds", pci_output)
         IN IF Raised(has) THEN has
            ELSE IF ~has.val.b THEN Ret(NoPciErrors)
            ELSE LET ids == Subscript(pci_output, "pciIds")
                     items == IF Raised(ids) THEN ids ELSE ItemsOf(ids.val)
                     list == IF Raised(items) THEN items ELSE pci_error_list(ids.val, 1, <<>>)
                 IN IF Raised(list) THEN list
                    ELSE IF list.val = <<>> THEN Ret(NoPciErrors)
                    ELSE Ret(Text(Join(NL, list.val)))

parse_system_errors(core_output, agent_output, syslog_output, pci_output) ==
    LET core == core_dumps(core_output)
        agent == agent_crashes(agent_output)
        syslog == syslog_criticals(syslog_output)
        pci == pci_errors(pci_output)
    IN IF Raised(core) THEN core
       ELSE IF Raised(agent) THEN agent
       ELSE IF Raised(syslog) THEN syslog
       ELSE IF Raised(pci) THEN pci
       ELSE Ret([core_dumps |-> core.val, agent_crashes |-> agent.val,
                 syslog_criticals |-> syslog.val, pci_errors |-> pci.val])

\* "Missing Router ID" in reason
missing_router_id_in(reason) ==
    CASE IsStr(reason) -> Ret(Bool(TextHasPhrase(LinesOf(reason), <<"Missing", "Router", "ID">>)))
      [] reason.t = "list" ->
            Ret(Bool(\E i \in 1..Len(reason.items) :
                        reason.items[i] \in {Text(Lit(<<"Missing", "Router", "ID">>)),
                                             Str("Missing Router ID")}))
      [] reason.t = "dict" -> Ret(Bool("Missing Router ID" \in DOMAIN reason.d))
      [] OTHER -> Raise("TypeError")

\* A list of transient states that leaves out Active: what the parser does
\* not use.
transient_states_without_active == {Str("Connect"), Str("OpenSent"), Str("OpenConfirm")}

transient_states == {Str("Active"), Str("Connect"), Str("OpenSent"), Str("OpenConfirm")}

\* The loop over vrf_default.get('peers', {}).items(): peers_down
RECURSIVE peers_down(_, _, _)
peers_down(peers, i, acc) ==
    IF i > Len(peers.keys) THEN Ret(acc)
    ELSE LET peer == peers.keys[i]
             details == peers.d[peer]
         IN IF ~IsDict(details) THEN Raise("AttributeError")
            ELSE LET peer_state == Get(details, "peerState", None)
                     state_color == IF peer_state \in transient_states
                                    THEN Colors("WARNING") ELSE Colors("FAIL")
                     line == FStr(<<Lit(<<"Peer">>), SP, Lit(<<peer>>), SP,
                                    Lit(<<"is", "in", "state">>), SP, state_color,
                                    IF Truthy(peer_state) THEN StrOf(peer_state)
                                    ELSE Lit(<<"Unknown">>),
                                    Colors("RESET")>>)
                 IN peers_down(peers, i + 1,
                        IF peer_state # Str("Established") THEN Append(acc, line) ELSE acc)

BgpNotConfigured ==
    Text(Lit(<<"BGP", "not", "configured", "or", "no", "summary", "available.">>))
MlagNotConfigured == Text(Lit(<<"MLAG", "not", "configured.">>))
NoVxlan == Text(Lit(<<"No", "VXLAN", "VNI", "information", "found.">>))

\* health["bgp"], for a vrf_default that is truthy
bgp_of_default_vrf(vrf_default) ==
    IF ~IsDict(vrf_default) THEN Raise("AttributeError")
    ELSE LET missing == missing_router_id_in(Get(vrf_default, "reason", Str("")))
             peers == Get(vrf_default, "peers", None)
         IN IF Raised(missing) THEN missing
            ELSE IF missing.val.b
            THEN Ret(Text(FStr(<<Colors("FAIL"),
                                 Lit(<<"BGP", "is", "disabled", "(Missing", "Router", "ID)">>),
                                 Colors("RESET")>>)))
            ELSE IF ~Truthy(peers)
            THEN Ret(Text(FStr(<<Colors("WARNING"),
                                 Lit(<<"BGP", "is", "enabled", "(Router", "ID:">>), SP,
                                 StrOf(Get(vrf_default, "routerId", Str("N/A"))), Lit(<<")">>), SP,
                                 Lit(<<"but", "has", "no", "configured", "neighbors.">>),
                                 Colors("RESET")>>)))
            ELSE IF ~IsDict(peers) THEN Raise("AttributeError")
            ELSE LET down == peers_down(peers, 1, <<>>)
                     total_peers == Len(peers.keys)
                 IN IF Raised(down) THEN down
                    ELSE LET peers_up == total_peers - Len(down.val)
                             summary_color == IF peers_up = total_peers
                                              THEN Colors("OKGREEN") ELSE Colors("FAIL")
                             summary ==
                                 FStr(<<summary_color,
                                        Lit(<<ToString(peers_up) \o "/" \o ToString(total_peers)>>),
                                        SP, Lit(<<"peers", "established.">>), Colors("RESET")>>)
                         IN Ret(Text(IF down.val = <<>> THEN summary
                                     ELSE Glued(Glued(summary, NL), Join(NL, down.val))))

\* health["bgp"]
bgp_health(bgp_data) ==
    IF ~Truthy(bgp_data) THEN Ret(BgpNotConfigured)
    ELSE LET has == KeyIn("vrfs", bgp_data)
         IN IF Raised(has) THEN has
            ELSE IF ~has.val.b THEN Ret(BgpNotConfigured)
            ELSE LET vrfs == Subscript(bgp_data, "vrfs")
                 IN IF Raised(vrfs) THEN vrfs
                    ELSE IF ~IsDict(vrfs.val) THEN Raise("AttributeError")
                    ELSE LET vrf_default == Get(vrfs.val, "default", None)
                         IN IF ~Truthy(vrf_default) THEN Ret(BgpNotConfigured)
                            ELSE bgp_of_default_vrf(vrf_default)

\* health["mlag"]
mlag_health(mlag_data) ==
    IF ~Truthy(mlag_data) THEN Ret(MlagNotConfigured)
    ELSE IF ~IsDict(mlag_data) THEN Raise("AttributeError")
    ELSE IF Get(mlag_data, "state", None) = Str("disabled") THEN Ret(MlagNotConfigured)
    ELSE LET state == Get(mlag_data, "state", Str("N/A"))
             color == IF state = Str("active") THEN Colors("OKGREEN") ELSE Colors("FAIL")
         IN Ret(Text(FStr(<<Lit(<<"State:">>), SP, color, StrOf(state), Colors("RESET"),
                            Lit(<<",">>), SP, Lit(<<"Negotiation", "Status:">>), SP,
                            StrOf(Get(mlag_data, "negStatus", Str("N/A"))),
                            Lit(<<",">>), SP, Lit(<<"Peer", "Link:">>), SP,
                            StrOf(Get(mlag_data, "peerLink", Str("N/A"))),
                            Lit(<<",">>), SP, Lit(<<"Local", "Interface:">>), SP,
                            StrOf(Get(mlag_data, "localInterface", Str("N/A")))>>)))

\* The characters of a str whose tokens are one blank apart
RECURSIVE SumLen(_, _)
SumLen(line, i) == IF i > Len(line) THEN 0 ELSE Len(line[i]) + 1 + SumLen(line, i + 1)
RECURSIVE CharCountFrom(_, _)
CharCountFrom(ls, i) ==
    IF i > Len(ls) THEN 0
    ELSE (IF ls[i] = <<>> THEN 0 ELSE SumLen(ls[i], 1) - 1) + 1 + CharCountFrom(ls, i + 1)
CharCount(ls) == IF ls = <<>> THEN 0 ELSE CharCountFrom(ls, 1) - 1

\* len(v)
LenOf(v) ==
    CASE v.t = "dict" -> Ret(Len(v.keys))
      [] v.t = "list" -> Ret(Len(v.items))
      [] v.t = "str" -> Ret(CharCount(v.lines))
      [] OTHER -> Raise("TypeError")

\* health["vxlan"]
vxlan_health(vxlan_data) ==
    IF ~Truthy(vxlan_data) THEN Ret(NoVxlan)
    ELSE LET has == KeyIn("vnis", vxlan_data)
         IN IF Raised(has) THEN has
            ELSE IF ~has.val.b THEN Ret(NoVxlan)
            ELSE LET vnis == Subscript(vxlan_data, "vnis")
                     n == IF Raised(vnis) THEN vnis ELSE LenOf(vnis.val)
                 IN IF Raised(n) THEN n
                    ELSE Ret(Text(Lit(<<"Found", ToString(n.val), "VNI(s).">>)))

parse_feature_health(bgp_data, mlag_data, vxlan_data) ==
    LET bgp == bgp_health(bgp_data)
        mlag == mlag_health(mlag_data)
        vxlan == vxlan_health(vxlan_data)
    IN IF Raised(bgp) THEN bgp
       ELSE IF Raised(mlag) THEN mlag
       ELSE IF Raised(vxlan) THEN vxlan
       ELSE Ret([bgp |-> bgp.val, mlag |-> mlag.val, vxlan |-> vxlan.val])

\* The loop over err_data['interfaceErrorCounters'].items(): the errors
\* and link_flaps lists
RECURSIVE error_counters(_, _, _)
error_counters(table, i, acc) ==
    IF i > Len(table.keys) THEN Ret(acc)
    ELSE LET iface == table.keys[i]
             counters == table.d[iface]
         IN IF ~IsDict(counters) THEN Raise("AttributeError")
            ELSE LET any == AnyGreater(<<Get(counters, "inErrors", Num(0)),
                                         Get(counters, "outErrors", Num(0))>>, 0)
                     in_errors == Subscript(counters, "inErrors")
                     out_errors == Subscript(counters, "outErrors")
                     flapping == GreaterThan(Get(counters, "linkStatusChanges", Num(0)), 10)
                     error_line ==
                         FStr(<<Lit(<<iface \o ":">>), SP, Lit(<<"In=">>), StrOf(in_errors.val),
                                Lit(<<",">>), SP, Lit(<<"Out=">>), StrOf(out_errors.val)>>)
                     flap_line ==
                         FStr(<<Lit(<<iface \o ":">>), SP,
                                StrOf(Subscript(counters, "linkStatusChanges").val), SP,
                                Lit(<<"flaps">>)>>)
                 IN IF Raised(any) THEN any
                    ELSE IF any.val.b /\ Raised(in_errors) THEN in_errors
                    ELSE IF any.val.b /\ Raised(out_errors) THEN out_errors
                    ELSE IF Raised(flapping) THEN flapping
                    ELSE error_counters(table, i + 1,
                            [errors |-> IF any.val.b THEN Append(acc.errors, Text(error_line))
                                        ELSE acc.errors,
                             link_flaps |-> IF flapping.val.b
                                            THEN Append(acc.link_flaps, Text(flap_line))
                                            ELSE acc.link_flaps])

\* The loop over disc_data['interfaceDiscardCounters'].items(): discards
RECURSIVE discard_counters(_, _, _)
discard_counters(table, i, acc) ==
    IF i > Len(table.keys) THEN Ret(acc)
    ELSE LET iface == table.keys[i]
             counters == table.d[iface]
         IN IF ~IsDict(counters) THEN Raise("AttributeError")
            ELSE LET any == AnyGreater(<<Get(counters, "inDiscards", Num(0)),
                                         Get(counters, "outDiscards", Num(0))>>, 0)
                     in_discards == Subscript(counters, "inDiscards")
                     out_discards == Subscript(counters, "outDiscards")
                     line ==
                         FStr(<<Lit(<<iface \o ":">>), SP, Lit(<<"In=">>), StrOf(in_discards.val),
                                Lit(<<",">>), SP, Lit(<<"Out=">>), StrOf(out_discards.val)>>)
                 IN IF Raised(any) THEN any
                    ELSE IF any.val.b /\ Raised(in_discards) THEN in_discards
                    ELSE IF any.val.b /\ Raised(out_discards) THEN out_discards
                    ELSE discard_counters(table, i + 1,
                            IF any.val.b THEN Append(acc, Text(line)) ELSE acc)

\* data[key].items() walked by loop, when data is truthy and holds key;
\* otherwise nothing
CounterTable(data, key, loop(_), nothing) ==
    IF ~Truthy(data) THEN Ret(nothing)
    ELSE LET has == KeyIn(key, data)
         IN IF Raised(has) THEN has
            ELSE IF ~has.val.b THEN Ret(nothing)
            ELSE LET table == Subscript(data, key)
                     items == IF Raised(table) THEN table ELSE ItemsOf(table.val)
                 IN IF Raised(items) THEN items ELSE loop(table.val)

parse_interface_health(err_data, disc_data) ==
    LET err_loop(table) == error_counters(table, 1, [errors |-> <<>>, link_flaps |-> <<>>])
        disc_loop(table) == discard_counters(table, 1, <<>>)
        err == CounterTable(err_data, "interfaceErrorCounters", err_loop,
                            [errors |-> <<>>, link_flaps |-> <<>>])
        disc == CounterTable(disc_data, "interfaceDiscardCounters", disc_loop, <<>>)
    IN IF Raised(err) THEN err
       ELSE IF Raised(disc) THEN disc
       ELSE Ret([errors |-> err.val.errors, discards |-> disc.val,
                 link_flaps |-> err.val.link_flaps])

\* The first line of cvp_data that holds "server", or <<>> when none does
first_server_line(lines) ==
    LET hits == {i \in 1..Len(lines) : LineContains(lines[i], "server")}
    IN IF hits = {} THEN <<>> ELSE <<lines[CHOOSE i \in hits : \A k \in hits : i <= k]>>

\* health["cvp"]
cvp_health(cvp_data) ==
    LET not_configured ==
            Text(FStr(<<Colors("WARNING"), Lit(<<"TerminAttr", "agent", "not", "configured.">>),
                        Colors("RESET")>>))
    IN IF ~Truthy(cvp_data) THEN Ret(not_configured)
       ELSE IF ~IsStr(cvp_data) THEN Raise("AttributeError")
       ELSE LET found == first_server_line(splitlines(LinesOf(cvp_data)))
            IN IF found = <<>> THEN Ret(not_configured)
               ELSE Ret(Text(FStr(<<Colors("OKGREEN"), Lit(found[1]), Colors("RESET")>>)))

\* The loop over stp_data['spanningTreeInstances'].items(): stp_summary
RECURSIVE stp_summary(_, _, _)
stp_summary(instances, i, acc) ==
    IF i > Len(instances.keys) THEN Ret(acc)
    ELSE LET instance == instances.keys[i]
             details == instances.d[instance]
         IN IF ~IsDict(details) THEN Raise("AttributeError")
            ELSE LET line == FStr(<<Lit(<<"Instance">>), SP, Lit(<<instance \o ":">>), SP,
                                    Lit(<<"Root">>), SP, Lit(<<"Port=">>),
                                    StrOf(Get(details, "rootPort", Str("N/A")))>>)
                 IN stp_summary(instances, i + 1,
                        IF Truthy(Get(details, "rootBridge", None)) THEN Append(acc, line)
                        ELSE acc)

\* health["stp"]
stp_health(stp_data) ==
    LET loop(instances) == stp_summary(instances, 1, <<>>)
        no_table == <<Lit(<<"<no table>">>)>>
        summary == CounterTable(stp_data, "spanningTreeInstances", loop, no_table)
    IN IF Raised(summary) THEN summary
       ELSE IF summary.val = no_table
       THEN Ret(Text(Lit(<<"No", "STP", "information", "found.">>)))
       ELSE IF summary.val = <<>>
       THEN Ret(Text(Lit(<<"No", "active", "STP", "instances", "found.">>)))
       ELSE Ret(Text(Join(NL, summary.val)))

parse_management_health(cvp_data, stp_data) ==
    LET cvp == cvp_health(cvp_data)
        stp == stp_health(stp_data)
    IN IF Raised(cvp) THEN cvp
       ELSE IF Raised(stp) THEN stp
       ELSE Ret([cvp |-> cvp.val, stp |-> stp.val])

\* What `for n in v` walks
IterOf(v) ==
    CASE v.t = "list" -> Ret(v.items)
      [] v.t = "dict" -> Ret([i \in 1..Len(v.keys) |-> Str(v.keys[i])])
      [] v.t = "str" -> Ret([i \in 1..CharCount(v.lines) |-> Str("<char>")])
      [] v.t = "jsontext" -> Ret(<<Str("<char>")>>)
      [] OTHER -> Raise("TypeError")

\* The loop over lldp_data['lldpNeighbors']
RECURSIVE neighbors(_, _, _)
neighbors(items, i, acc) ==
    IF i > Len(items) THEN Ret(acc)
    ELSE LET n == items[i]
             port == Subscript(n, "port")
         IN IF Raised(port) THEN port
            ELSE neighbors(items, i + 1,
                    Append(acc, [local_port |-> port.val,
                                 neighbor_device |-> Get(n, "neighborDevice", Str("N/A")),
                                 neighbor_port |-> Get(n, "neighborPort", Str("N/A"))]))

parse_lldp_neighbors(lldp_data) ==
    IF ~Truthy(lldp_data) THEN Ret(<<>>)
    ELSE LET has == KeyIn("lldpNeighbors", lldp_data)
         IN IF Raised(has) THEN has
            ELSE IF ~has.val.b THEN Ret(<<>>)
            ELSE LET list == Subscript(lldp_data, "lldpNeighbors")
                     items == IF Raised(list) THEN list ELSE IterOf(list.val)
                 IN IF Raised(items) THEN items ELSE neighbors(items.val, 1, <<>>)

-----------------------------------------------------------------------------
(* Output and reporting *)

\* Tokens whose float value, once every character but digits and dots is
\* removed, is known: the value in hundredths.
FloatTable ==
    { <<"0.0", 0>>, <<"5.9", 590>>, <<"74.9", 7490>>, <<"75.0", 7500>>,
      <<"89.9", 8990>>, <<"90.0", 9000>>, <<"100.0", 10000>>,
      <<"4%", 400>>, <<"10%", 1000>>, <<"15%", 1500>>, <<"74%", 7400>>,
      <<"75%", 7500>>, <<"89%", 8900>>, <<"90%", 9000>>, <<"100%", 10000>>,
      <<"0.00", 0>>, <<"75.00", 7500>>, <<"90.00", 9000>>,
      <<"0.01", 1>>, <<"5.90", 590>>, <<"74.99", 7499>>, <<"75.01", 7501>>,
      <<"89.99", 8999>>, <<"90.01", 9001>>, <<"100.00", 10000>> }
\* Tokens left with no float in them: float() raises ValueError.
NotAFloat == {"", "N/A", "1.2.3"}
\* The largest x.yy looked for when a token is not in the table.
MaxHundredths == 20000

\* The characters of a str, whitespace removed
RECURSIVE SquashLine(_, _)
SquashLine(line, i) == IF i > Len(line) THEN "" ELSE line[i] \o SquashLine(line, i + 1)
RECURSIVE Squash(_, _)
Squash(ls, i) == IF i > Len(ls) THEN "" ELSE SquashLine(ls[i], 1) \o Squash(ls, i + 1)

\* float(re.sub(r'[^0-9.]', '', value_str)) in hundredths, -1 for ValueError
FloatOfCleaned(ls) ==
    LET s == Squash(ls, 1)
    IN IF s \in NotAFloat THEN -1
       ELSE IF \E p \in FloatTable : p[1] = s
       THEN (CHOOSE p \in FloatTable : p[1] = s)[2]
       ELSE CHOOSE h \in 0..MaxHundredths : s \in {Format2(FALSE, h), Format2(TRUE, h)}

color_by_threshold(value_str, warn, crit) ==
    IF value_str.t # "str" THEN StrOf(value_str)
    ELSE LET numeric_val == FloatOfCleaned(value_str.lines)
         IN IF numeric_val < 0 THEN value_str.lines
            ELSE IF numeric_val >= crit * 100
            THEN FStr(<<Colors("FAIL"), value_str.lines, Colors("RESET")>>)
            ELSE IF numeric_val >= warn * 100
            THEN FStr(<<Colors("WARNING"), value_str.lines, Colors("RESET")>>)
            ELSE FStr(<<Colors("OKGREEN"), value_str.lines, Colors("RESET")>>)

\* '=' * 80 and '-' * 30
Rule80 == "================================================================================"
Rule30 == "------------------------------"

\* The entries title(text) appends to the report
title(text) ==
    << FStr(<<NL, Colors("HEADER"), Colors("BOLD"), Lit(<<Rule80>>)>>),
       text,
       FStr(<<Lit(<<Rule80>>), Colors("RESET")>>) >>

\* The entries section(text) appends to the report
section(text) ==
    << FStr(<<NL, Colors("TITLE"), Colors("BOLD"), Lit(<<Rule30>>)>>),
       text,
       FStr(<<Lit(<<Rule30>>), Colors("RESET")>>) >>

\* The entry add(key, value) appends: f"{key:<25}: {value}"
add(key, value) ==
    << IF CharCount(key) < 25 THEN FStr(<<key, SP, Lit(<<":">>), SP, value>>)
       ELSE FStr(<<key, Lit(<<":">>), SP, value>>) >>

\* f"{v:<n}": a str or a number takes the width, any other value raises
Padded(v) == IF v.t \in {"str", "jsontext"} THEN Ret(StrOf(v))
             ELSE IF v.t = "int" THEN Ret(StrOf(v))
             ELSE IF v.t = "bool" THEN Ret(Lit(<<IF v.b THEN "1" ELSE "0">>))
             ELSE Raise("TypeError")

\* [f(x) for x in items]
MapSeq(f(_), items) == [i \in 1..Len(items) |-> f(items[i])]
\* items[:n]
Prefix(items, n) == SubSeq(items, 1, IF Len(items) < n THEN Len(items) ELSE n)

system_entries(s) ==
    IF "error" \in DOMAIN s
    THEN add(Lit(<<"Error">>), FStr(<<Colors("FAIL"), StrOf(s.error), Colors("RESET")>>))
    ELSE add(Lit(<<"Model">>), StrOf(s.model))
         \o add(Lit(<<"Serial", "Number">>), StrOf(s.serial))
         \o add(Lit(<<"EOS", "Version">>), StrOf(s.version))
         \o add(Lit(<<"Total", "Memory", "(GB)">>), StrOf(s.mem_total_gb))
         \o add(Lit(<<"Memory", "Used", "(%)">>), color_by_threshold(s.mem_used_percent, 75, 90))

process_entry(p) ==
    FStr(<<StrOf(p.pid), SP, StrOf(p.user), SP, StrOf(p.cpu), SP, StrOf(p.mem), SP,
           StrOf(p.command)>>)

cpu_entries(c) ==
    IF "error" \in DOMAIN c
    THEN add(Lit(<<"Error">>), FStr(<<Colors("FAIL"), StrOf(c.error), Colors("RESET")>>))
    ELSE add(Lit(<<"CPU", "Utilization", "(user", "%)">>), color_by_threshold(c.utilization, 75, 90))
         \o (IF c.top_processes = <<>> THEN <<>>
             ELSE << FStr(<<NL, Lit(<<"Top", "5", "Processes:">>)>>),
                     FStr(<<Colors("BOLD"), Lit(<<"PID", "USER", "%CPU", "%MEM", "COMMAND">>),
                            Colors("RESET")>>) >>
                  \o MapSeq(process_entry, c.top_processes))

\* sorted(f.items()), by mount point
sorted_mounts(f) ==
    LET order == <<"/mnt/flash", "/var/core", "/var/log">>
    IN SelectSeq(order, LAMBDA m : m \in DOMAIN f)

filesystem_entries(f) ==
    IF "error" \in DOMAIN f
    THEN add(Lit(<<"Error">>), FStr(<<Colors("FAIL"), StrOf(f.error), Colors("RESET")>>))
    ELSE IF DOMAIN f = {}
    THEN add(Lit(<<"Monitored", "mounts">>),
             FStr(<<Colors("WARNING"),
                    Lit(<<"Not", "found", "(/mnt/flash,", "/var/log,", "/var/core)">>),
                    Colors("RESET")>>))
    ELSE LET row(m) == FStr(<<Lit(<<m>>), SP, StrOf(f[m].size), SP, StrOf(f[m].used), SP,
                              StrOf(f[m].avail), SP, color_by_threshold(f[m].use_pct, 75, 90)>>)
         IN << FStr(<<Colors("BOLD"), Lit(<<"Mount", "Point", "Size", "Used", "Avail", "Use%">>),
                      SP, Colors("RESET")>>) >>
            \o MapSeq(row, sorted_mounts(f))

\* The first line of a str as a str: s.splitlines()[0]
FirstLine(ls) == IF splitlines(ls)[1] = <<>> THEN <<>> ELSE <<splitlines(ls)[1]>>

errors_entries(e) ==
    LET core == StrOf(e.core_dumps)
        agent == StrOf(e.agent_crashes)
        pci == StrOf(e.pci_errors)
        bullet(line) == FStr(<<Lit(<<"-">>), SP, StrOf(line)>>)
        n == Len(e.syslog_criticals)
    IN add(Lit(<<"Core", "Dumps">>),
           IF TextContains(core, "found")
           THEN FStr(<<Colors("FAIL"), FirstLine(core), Colors("RESET")>>)
           ELSE FStr(<<Colors("OKGREEN"), core, Colors("RESET")>>))
       \o add(Lit(<<"Agent", "Crashes">>),
              IF TextContains(agent, "found")
              THEN FStr(<<Colors("FAIL"), agent, Colors("RESET")>>)
              ELSE FStr(<<Colors("OKGREEN"), agent, Colors("RESET")>>))
       \o add(Lit(<<"PCI", "Errors">>),
              IF ~TextContains(pci, "found")
              THEN FStr(<<Colors("FAIL"), pci, Colors("RESET")>>)
              ELSE FStr(<<Colors("OKGREEN"), pci, Colors("RESET")>>))
       \o (IF n > 0
           THEN << FStr(<<NL, Colors("FAIL"), Lit(<<"Critical", "Syslog", "Entries", "Found:">>),
                          Colors("RESET")>>) >>
                \o MapSeq(bullet, Prefix(e.syslog_criticals, 10))
                \o (IF n > 10
                    THEN << Lit(<<"...", "and", ToString(n - 10), "more.">>) >>
                    ELSE <<>>)
           ELSE add(Lit(<<"Critical", "Syslog">>),
                    FStr(<<Colors("OKGREEN"),
                           Lit(<<"No", "critical", "error/fail/crit", "messages", "found.">>),
                           Colors("RESET")>>)))

features_entries(feat) ==
    LET bgp_status == StrOf(feat.bgp)
        lines == splitlines(bgp_status)
        as_entry(line) == IF line = <<>> THEN <<>> ELSE <<line>>
    IN (IF Len(bgp_status) >= 2
        THEN add(Lit(<<"BGP", "Status">>), as_entry(lines[1]))
             \o MapSeq(as_entry, Tail(lines))
        ELSE add(Lit(<<"BGP", "Status">>), bgp_status))
       \o add(Lit(<<"MLAG", "Status">>), StrOf(feat.mlag))
       \o add(Lit(<<"VXLAN", "Status">>), StrOf(feat.vxlan))

interfaces_entries(i) ==
    LET count(key, items, color) ==
            add(key, FStr(<<Colors(IF items # <<>> THEN color ELSE "OKGREEN"),
                            Lit(<<ToString(Len(items))>>), Colors("RESET")>>))
        listed(items, color) ==
            LET entry(line) == FStr(<<Colors(color), SP, Lit(<<"-">>), SP, StrOf(line), Colors("RESET")>>)
            IN MapSeq(entry, items)
    IN count(Lit(<<"Interfaces", "with", "Errors">>), i.errors, "FAIL")
       \o listed(i.errors, "FAIL")
       \o count(Lit(<<"Interfaces", "with", "Discards">>), i.discards, "WARNING")
       \o listed(i.discards, "WARNING")
       \o count(Lit(<<"Interfaces", "with", "High", "Flaps">>), i.link_flaps, "WARNING")
       \o listed(i.link_flaps, "WARNING")

management_entries(m) ==
    add(Lit(<<"CVP/CVaaS", "Status">>), StrOf(m.cvp))
    \o add(Lit(<<"STP", "Root", "Summary">>),
           IF Len(StrOf(m.stp)) >= 2 THEN FStr(<<NL, SP, StrOf(m.stp)>>) ELSE StrOf(m.stp))

\* The entries of the neighbor table, or the TypeError of the first value
\* that takes no width
RECURSIVE lldp_rows(_, _, _)
lldp_rows(l, i, acc) ==
    IF i > Len(l) THEN Ret(acc)
    ELSE LET port == Padded(l[i].local_port)
             device == Padded(l[i].neighbor_device)
         IN IF Raised(port) THEN port
            ELSE IF Raised(device) THEN device
            ELSE lldp_rows(l, i + 1,
                     Append(acc, FStr(<<port.val, SP, device.val, SP, StrOf(l[i].neighbor_port)>>)))

lldp_entries(l) ==
    IF l # <<>>
    THEN lldp_rows(l, 1, << FStr(<<Colors("BOLD"),
                                   Lit(<<"Local", "Port", "Neighbor", "Device", "Neighbor", "Port">>),
                                   Colors("RESET")>>) >>)
    ELSE Ret(<< Lit(<<"No", "LLDP", "neighbors", "found.">>) >>)

\* format_summary_report(data), `now` being the UTC time it reads
format_summary_report(data, now) ==
    LET lldp == lldp_entries(data.lldp)
    IN IF Raised(lldp) THEN lldp
       ELSE Ret(Text(Join(NL,
                title(FStr(<<Lit(<<"Arista", "EOS", "Health", "Check", "Report", "for">>), SP,
                             StrOf(data.hostname)>>))
                \o add(Lit(<<"Timestamp", "(UTC)">>), Lit(now))
                \o add(Lit(<<"Script", "Version">>), Lit(<<"1.2.3">>))
                \o section(Lit(<<"System", "Summary">>)) \o system_entries(data.system)
                \o section(Lit(<<"CPU", "Status">>)) \o cpu_entries(data.cpu)
                \o section(Lit(<<"Filesystem", "Utilization">>)) \o filesystem_entries(data.filesystem)
                \o section(Lit(<<"System", "Stability", "&", "Errors">>)) \o errors_entries(data.errors)
                \o section(Lit(<<"Feature", "Health">>)) \o features_entries(data.features)
                \o section(Lit(<<"Interface", "Health">>)) \o interfaces_entries(data.interfaces)
                \o section(Lit(<<"Management", "&", "Connectivity">>)) \o management_entries(data.management)
                \o section(Lit(<<"LLDP", "Neighbors">>)) \o lldp.val
                \o << FStr(<<NL, Colors("HEADER"), Colors("BOLD"), Lit(<<Rule80>>), Colors("RESET")>>),
                      FStr(<<Colors("BOLD"), Lit(<<"---", "End", "of", "Report", "---">>),
                             Colors("RESET")>>) >>)))

-----------------------------------------------------------------------------
(* run_command applied on its own *)

LocalExecutor == [mode |-> "local", eapi_usable |-> FALSE]
ApiExecutor == [mode |-> "remote", eapi_usable |-> TRUE]
ShellExecutor == [mode |-> "remote", eapi_usable |-> FALSE]
Executors == {LocalExecutor, ApiExecutor, ShellExecutor}

HostnameTree == Dict(<< <<"hostname", Str("sw1")>> >>)
BgpInactiveDetail == Dict(<< <<"errors", List(<<Str("BGP inactive")>>)>>, <<"vrfs", Dict(<<>>)>> >>)
SampleText == Text(<< <<"Filesystem", "Size">>, <<"none", "1G">>, <<>> >>)
InvalidInputText == Text(<< <<"%", "Invalid", "input">>, <<>> >>)

\* Command texts run_command is applied to: with and without the modifier,
\* with and without another pipe.
SampleCommands ==
    { <<"show", "hostname">>, <<"show", "hostname", "|", "json">>,
      <<"bash", "df", "-h">>, <<"show", "run", "|", "grep", "TerminAttr">> }

\* What subprocess.run can do: the client binary is missing, the child exits
\* non-zero, the 60 s timeout expires, stdout is not text, or stdout arrives.
SubprocessFailures ==
    {"FileNotFoundError", "CalledProcessError", "TimeoutExpired", "UnicodeDecodeError"}
SubprocessResponses(outputs) ==
    {[kind |-> k] : k \in SubprocessFailures} \cup {[kind |-> "stdout", out |-> o] : o \in outputs}

\* What the HTTPS exchange can do: urlopen fails (URLError), the read times
\* out (socket.timeout), the peer resets the connection, the body is not
\* UTF-8, or a body arrives.
EapiFailures == {"URLError", "socket.timeout", "ConnectionResetError", "UnicodeDecodeError"}
EapiResponses(bodies) ==
    {[kind |-> k] : k \in EapiFailures} \cup {[kind |-> "body", out |-> b] : b \in bodies}

\* The envelope of a successful command whose result[0] is `result`.
ResultEnvelope(result) ==
    Dict(<< <<"jsonrpc", Str("2.0")>>, <<"result", List(<<result>>)>> >>)
\* The result[0] of a text command.
TextResult(text) == Dict(<< <<"output", text>> >>)

ErrorEnvelope == Dict(<< <<"error", Dict(<< <<"code", Num(1002)>>, <<"message", Str("CLI command failed")>> >>)>> >>)
ErrorEnvelopeWithDetail ==
    Dict(<< <<"error", Dict(<< <<"code", Num(1002)>>, <<"message", Str("CLI command failed")>>,
                                <<"data", List(<<BgpInactiveDetail>>)>> >>)>> >>)
ErrorEnvelopeNoMessage ==
    Dict(<< <<"error", Dict(<< <<"code", Num(1002)>>, <<"data", List(<<BgpInactiveDetail>>)>> >>)>> >>)
ErrorEnvelopeString == Dict(<< <<"error", Str("boom")>> >>)
MalformedEnvelopes ==
    { Dict(<< <<"jsonrpc", Str("2.0")>> >>),
      Dict(<< <<"result", List(<<>>)>> >>),
      List(<<Num(1)>>) }
ErrorEnvelopes ==
    {ErrorEnvelope, ErrorEnvelopeWithDetail, ErrorEnvelopeNoMessage, ErrorEnvelopeString}

SampleOutputs == {JsonText(HostnameTree), SampleText, InvalidInputText}
SampleBodies ==
    {JsonText(e) : e \in ErrorEnvelopes \cup MalformedEnvelopes}
    \cup {JsonText(ResultEnvelope(HostnameTree)), JsonText(ResultEnvelope(TextResult(SampleText))),
          Text(<< <<"<html>">> >>)}

ResponsesOf(self, outputs, bodies) ==
    IF Transport(self) = "RemoteAPI" THEN EapiResponses(bodies) ELSE SubprocessResponses(outputs)

\* No run of main() is in progress.
NoRun ==
    /\ pc = "idle" /\ mode = "local" /\ eapi_usable = FALSE /\ hostname = NoValue
    /\ ssh_host = "" /\ idx = 0 /\ raw_data = <<>> /\ health_data = NoValue
    /\ report = NoValue /\ log_file = NoValue /\ trace = <<>> /\ uncaught = ""
    /\ link = "up" /\ anomalies = 0

Idle == NoRun /\ tty = FALSE

InitCall == Idle /\ call = NoCall

CallRunCommand ==
    \E self \in Executors, command \in SampleCommands, use_json \in BOOLEAN :
      \E resp \in ResponsesOf(self, SampleOutputs, SampleBodies) :
        /\ call' = [fn |-> "run_command", self |-> self, command |-> command,
                    use_json |-> use_json, resp |-> resp,
                    sent |-> sent_command(self, command, use_json),
                    ret |-> run_command(self, command, use_json, resp)]
        /\ UNCHANGED <<run_vars, tty>>

SpecRunCommand == InitCall /\ [][CallRunCommand]_vars

IsRunCommandCall == call.fn = "run_command"

\* C1: run_command never raises: whatever the transport and whatever way the
\* invocation fails, the call returns (None for a failed invocation).
C1_RunCommandNeverRaises ==
    IsRunCommandCall =>
        /\ ~Raised(call.ret)
        /\ (call.resp.kind \notin {"stdout", "body"} => call.ret = Ret(None))

\* The envelope of a RemoteAPI call, when the body decoded to a dict.
CallEnvelope == call.resp.out.tree
IsEnvelopeCall ==
    /\ IsRunCommandCall /\ Transport(call.self) = "RemoteAPI"
    /\ call.resp.kind = "body" /\ call.resp.out.t = "jsontext"
    /\ IsDict(CallEnvelope)
IsErrorEnvelopeCall == IsEnvelopeCall /\ "error" \in DOMAIN CallEnvelope.d
ErrorHasMessage ==
    /\ IsDict(CallEnvelope.d["error"]) /\ "message" \in DOMAIN CallEnvelope.d["error"].d
ErrorHasDetail ==
    /\ IsDict(CallEnvelope.d["error"]) /\ "data" \in DOMAIN CallEnvelope.d["error"].d
    /\ ~Raised(First(CallEnvelope.d["error"].d["data"]))
ErrorDetail == First(CallEnvelope.d["error"].d["data"]).val

\* C8 as stated: on RemoteAPI an envelope carrying a well-formed 'error' is
\* surfaced as Failed, except that with structured detail in data[0] the
\* call returns that detail as its payload.
C8_DetailSurfacedAsPayload ==
    (IsErrorEnvelopeCall /\ ErrorHasMessage) =>
        call.ret = (IF ErrorHasDetail THEN Ret(ErrorDetail) ELSE Ret(None))

\* C8 as amended: on RemoteAPI an envelope carrying an 'error' never yields a
\* payload, with or without structured detail in data[0]; when the error
\* object has a message the call returns Failed (None).
C8_ErrorEnvelopeIsFailed ==
    IsErrorEnvelopeCall =>
        /\ (Raised(call.ret) \/ call.ret = Ret(None))
        /\ (ErrorHasMessage => call.ret = Ret(None))

\* C8 witness: an envelope with an error message and data[0] detail was
\* answered with Failed.
C8_Witness ==
    /\ IsErrorEnvelopeCall /\ ErrorHasMessage /\ ErrorHasDetail
    /\ call.use_json /\ call.ret = Ret(None)

\* C9: the command string handed to the CLI bridge or to ssh contains
\* "| json" at most once, and only when structured output was requested or
\* the caller's text already carried it.
C9_ModifierAtMostOnce ==
    (IsRunCommandCall /\ Transport(call.self) \in {"Local", "RemoteShell"}) =>
        /\ CountJsonModifier(call.sent) <= 1
        /\ (CountJsonModifier(call.sent) >= 1 =>
                call.use_json \/ HasJsonModifier(call.command))

\* C9 witness: structured output requested for a text that already carries
\* the modifier, and the string sent carries it once.
C9_Witness ==
    /\ IsRunCommandCall /\ Transport(call.self) = "Local"
    /\ call.use_json /\ HasJsonModifier(call.command)
    /\ CountJsonModifier(call.sent) = 1

\* C10: over the CLI bridge or ssh, when the child delivered stdout, a call
\* requesting Structured output returns the decoded tree or Failed (never
\* the raw text), and a call requesting FreeText returns stdout verbatim.
C10_ResultMatchesRequestedShape ==
    (IsRunCommandCall /\ Transport(call.self) \in {"Local", "RemoteShell"}
        /\ call.resp.kind = "stdout") =>
        IF call.use_json
        THEN call.ret = (IF call.resp.out.t = "jsontext"
                         THEN Ret(call.resp.out.tree) ELSE Ret(None))
        ELSE call.ret = Ret(call.resp.out)

-----------------------------------------------------------------------------
(* The parsers applied on their own *)

\* A healthy 'show version' tree (memory in KB).
VersionTree ==
    Dict(<<<<"modelName", Text(<<<<"DCS-7050">>>>)>>, <<"serialNumber",
    Text(<<<<"SN1">>>>)>>, <<"version", Text(<<<<"4.30">>>>)>>, <<"uptime",
    Num(120)>>, <<"memTotal", Num(8000000)>>, <<"memFree", Num(2000000)>>>>)
\* memTotal arrives as a str.
VersionTreeTextMemory ==
    Dict(<<<<"modelName", Text(<<<<"DCS-7050">>>>)>>, <<"memTotal",
    Text(<<<<"8000000">>>>)>>, <<"memFree", Num(2000000)>>>>)
\* Output of top: the summary line and two processes.
TopOutput ==
    Text(<<<<"top", "-", "10:00:00", "up", "1", "day">>, <<"%Cpu(s):", "5.9",
    "us,", "2.0", "sy">>, <<>>, <<"PID", "USER", "PR", "NI", "VIRT", "RES",
    "SHR", "S", "%CPU", "%MEM", "TIME+", "COMMAND">>, <<"1234", "root", "20",
    "0", "100000", "20000", "10000", "S", "12.5", "1.2", "0:10.00", "Sysdb">>,
    <<"1236", "root", "20", "0", "100000", "20000", "10000", "R", "1.5",
    "0.1", "0:02.00", "Bgp">>, <<>>>>)
\* Output of top without the CPU line and the process table.
TopOutputNoTable ==
    Text(<<<<"top:", "failed", "tty", "get">>, <<>>>>)
\* Output of df -h.
DfOutput ==
    Text(<<<<"Filesystem", "Size", "Used", "Avail", "Use%", "Mounted", "on">>,
    <<"overlay", "100M", "10M", "90M", "10%", "/mnt/flash">>, <<"tmpfs",
    "1.0G", "900M", "100M", "90%", "/var/log">>, <<"none", "1G", "2G", "3G",
    "4%", "/">>, <<>>>>)
\* Output of df -h with no mount listed.
DfOutputHeaderOnly ==
    Text(<<<<"Filesystem", "Size", "Used", "Avail", "Use%", "Mounted", "on">>,
    <<>>>>)
\* ls -l /var/core of an empty directory.
CoreListingEmpty ==
    Text(<<<<"total", "0">>, <<>>>>)
\* ls -l /var/core with one core file.
CoreListingOneFile ==
    Text(<<<<"total", "12">>, <<"-rw-r--r--", "1", "root", "root", "12",
    "Jan", "1", "core.1234.gz">>, <<>>>>)
\* ls -l /var/core with one core file of 0 blocks.
CoreListingEmptyFile ==
    Text(<<<<"total", "0">>, <<"-rw-r--r--", "1", "root", "root", "0", "Jan",
    "1", "core.1234.gz">>, <<>>>>)
\* tail of the agent logs when there is nothing to show.
AgentLogsQuiet ==
    Text(<<>>)
\* tail of the agent logs: two non-empty lines.
AgentLogsTwoLines ==
    Text(<<<<"===>", "/var/log/agents/Stp-1", "<===">>, <<>>, <<"Stp",
    "crashed">>, <<>>>>)
\* 'show logging last 7 days | grep ...' matching nothing.
SyslogQuiet ==
    Text(<<>>)
\* Two matching syslog lines.
SyslogTwoLines ==
    Text(<<<<"Jan", "1", "error", "foo">>, <<"Jan", "2", "fail", "bar">>,
    <<>>>>)
\* 'show pci' with every counter at zero.
PciClean ==
    Dict(<<<<"pciIds", Dict(<<<<"00:01", Dict(<<<<"name",
    Text(<<<<"Switch">>>>)>>, <<"correctableErrors", Num(0)>>,
    <<"nonFatalErrors", Num(0)>>, <<"fatalErrors", Num(0)>>>>)>>>>)>>>>)
\* 'show pci' with a correctable error.
PciWithErrors ==
    Dict(<<<<"pciIds", Dict(<<<<"00:01", Dict(<<<<"name",
    Text(<<<<"Switch">>>>)>>, <<"correctableErrors", Num(3)>>,
    <<"nonFatalErrors", Num(0)>>, <<"fatalErrors", Num(0)>>>>)>>>>)>>>>)
\* 'show pci' where a counter is not a number.
PciTextCounter ==
    Dict(<<<<"pciIds", Dict(<<<<"00:01", Dict(<<<<"name",
    Text(<<<<"Switch">>>>)>>, <<"correctableErrors", Text(<<<<"3">>>>)>>,
    <<"nonFatalErrors", Num(0)>>, <<"fatalErrors", Num(0)>>>>)>>>>)>>>>)
\* 'show ip bgp summary' of a device without BGP.
BgpNoVrf ==
    Dict(<<<<"vrfs", Dict(<<>>)>>>>)
\* One established peer.
BgpEstablished ==
    Dict(<<<<"vrfs", Dict(<<<<"default", Dict(<<<<"routerId",
    Text(<<<<"1.1.1.1">>>>)>>, <<"peers", Dict(<<<<"10.0.0.1",
    Dict(<<<<"peerState", Text(<<<<"Established">>>>)>>>>)>>>>)>>>>)>>>>)>>>>)
\* One established peer, one idle.
BgpPeerDown ==
    Dict(<<<<"vrfs", Dict(<<<<"default", Dict(<<<<"routerId",
    Text(<<<<"1.1.1.1">>>>)>>, <<"peers", Dict(<<<<"10.0.0.1",
    Dict(<<<<"peerState", Text(<<<<"Established">>>>)>>>>)>>, <<"10.0.0.2",
    Dict(<<<<"peerState", Text(<<<<"Idle">>>>)>>>>)>>>>)>>>>)>>>>)>>>>)
\* The default VRF carries reason: null.
BgpReasonNull ==
    Dict(<<<<"vrfs", Dict(<<<<"default", Dict(<<<<"reason", None>>,
    <<"routerId", Text(<<<<"1.1.1.1">>>>)>>, <<"peers",
    Dict(<<>>)>>>>)>>>>)>>>>)
\* 'show mlag' of a device without MLAG.
MlagDisabled ==
    Dict(<<<<"state", Text(<<<<"disabled">>>>)>>>>)
\* An active MLAG.
MlagActive ==
    Dict(<<<<"state", Text(<<<<"active">>>>)>>, <<"negStatus",
    Text(<<<<"connected">>>>)>>, <<"peerLink",
    Text(<<<<"Port-Channel10">>>>)>>, <<"localInterface",
    Text(<<<<"Vlan4094">>>>)>>>>)
\* 'show vxlan vni' without the table.
VxlanNone ==
    Dict(<<>>)
\* Two VNIs.
VxlanTwoVnis ==
    Dict(<<<<"vnis", Dict(<<<<"10", Dict(<<>>)>>, <<"20", Dict(<<>>)>>>>)>>>>)
\* 'show interfaces counters errors': nothing counted.
ErrorCountersClean ==
    Dict(<<<<"interfaceErrorCounters", Dict(<<<<"Ethernet1",
    Dict(<<<<"inErrors", Num(0)>>, <<"outErrors", Num(0)>>,
    <<"linkStatusChanges", Num(2)>>>>)>>>>)>>>>)
\* Input errors and many link changes.
ErrorCountersBad ==
    Dict(<<<<"interfaceErrorCounters", Dict(<<<<"Ethernet1",
    Dict(<<<<"inErrors", Num(5)>>, <<"outErrors", Num(0)>>,
    <<"linkStatusChanges", Num(11)>>>>)>>>>)>>>>)
\* A record with outErrors and no inErrors.
ErrorCountersOutOnly ==
    Dict(<<<<"interfaceErrorCounters", Dict(<<<<"Ethernet1",
    Dict(<<<<"outErrors", Num(5)>>>>)>>>>)>>>>)
\* 'show interfaces counters discards': nothing counted.
DiscardCountersClean ==
    Dict(<<<<"interfaceDiscardCounters", Dict(<<<<"Ethernet1",
    Dict(<<<<"inDiscards", Num(0)>>, <<"outDiscards", Num(0)>>>>)>>>>)>>>>)
\* Discards in both directions.
DiscardCountersBad ==
    Dict(<<<<"interfaceDiscardCounters", Dict(<<<<"Ethernet1",
    Dict(<<<<"inDiscards", Num(3)>>, <<"outDiscards", Num(4)>>>>)>>>>)>>>>)
\* A record with outDiscards and no inDiscards.
DiscardCountersOutOnly ==
    Dict(<<<<"interfaceDiscardCounters", Dict(<<<<"Ethernet1",
    Dict(<<<<"outDiscards", Num(4)>>>>)>>>>)>>>>)
\* 'show run | grep TerminAttr' matching nothing.
CvpNotConfigured ==
    Text(<<>>)
\* The TerminAttr daemon with its server option.
CvpConfigured ==
    Text(<<<<"daemon", "TerminAttr">>, <<"exec", "/usr/bin/TerminAttr",
    "-cvaddr=apiserver.arista.io:443", "-taillogs">>, <<>>>>)
\* 'show spanning-tree' without instances.
StpNoInstance ==
    Dict(<<<<"spanningTreeInstances", Dict(<<>>)>>>>)
\* One instance with a root port.
StpOneInstance ==
    Dict(<<<<"spanningTreeInstances", Dict(<<<<"MST0", Dict(<<<<"rootBridge",
    Dict(<<<<"priority", Num(1)>>>>)>>, <<"rootPort",
    Text(<<<<"Ethernet1">>>>)>>>>)>>>>)>>>>)
\* 'show lldp neighbors' with an empty table.
LldpNoNeighbor ==
    Dict(<<<<"lldpNeighbors", List(<<>>)>>>>)
\* One neighbor.
LldpOneNeighbor ==
    Dict(<<<<"lldpNeighbors", List(<<Dict(<<<<"port",
    Text(<<<<"Ethernet1">>>>)>>, <<"neighborDevice", Text(<<<<"sw2">>>>)>>,
    <<"neighborPort", Text(<<<<"Ethernet5">>>>)>>>>)>>)>>>>)
\* An entry without the 'port' key.
LldpEntryWithoutPort ==
    Dict(<<<<"lldpNeighbors", List(<<Dict(<<<<"neighborDevice",
    Text(<<<<"sw2">>>>)>>, <<"neighborPort",
    Text(<<<<"Ethernet5">>>>)>>>>)>>)>>>>)

\* What run_command hands to each parser argument: the decoded tree of a
\* Structured command or the text of a FreeText one, None when it failed.
VersionResults == {None, VersionTree, VersionTreeTextMemory, Dict(<<>>)}
TopResults == {None, TopOutput, TopOutputNoTable}
DfResults == {None, DfOutput, DfOutputHeaderOnly}
CoreResults == {None, CoreListingEmpty, CoreListingOneFile, CoreListingEmptyFile}
AgentResults == {None, AgentLogsQuiet, AgentLogsTwoLines}
SyslogResults == {None, SyslogQuiet, SyslogTwoLines}
PciResults == {None, PciClean, PciWithErrors, PciTextCounter}
BgpResults == {None, BgpNoVrf, BgpEstablished, BgpPeerDown, BgpReasonNull}
MlagResults == {None, MlagDisabled, MlagActive}
VxlanResults == {None, VxlanNone, VxlanTwoVnis}
ErrorCounterResults == {None, ErrorCountersClean, ErrorCountersBad, ErrorCountersOutOnly}
DiscardCounterResults == {None, DiscardCountersClean, DiscardCountersBad, DiscardCountersOutOnly}
CvpResults == {None, CvpNotConfigured, CvpConfigured}
StpResults == {None, StpNoInstance, StpOneInstance}
LldpResults == {None, LldpNoNeighbor, LldpOneNeighbor, LldpEntryWithoutPort}

\* fn(*args) for a parser named fn
ApplyParser(fn, args) ==
    CASE fn = "parse_system_summary" -> parse_system_summary(args[1])
      [] fn = "parse_cpu_status" -> parse_cpu_status(args[1])
      [] fn = "parse_filesystem_usage" -> parse_filesystem_usage(args[1])
      [] fn = "parse_system_errors" -> parse_system_errors(args[1], args[2], args[3], args[4])
      [] fn = "parse_feature_health" -> parse_feature_health(args[1], args[2], args[3])
      [] fn = "parse_interface_health" -> parse_interface_health(args[1], args[2])
      [] fn = "parse_management_health" -> parse_management_health(args[1], args[2])
      [] fn = "parse_lldp_neighbors" -> parse_lldp_neighbors(args[1])

InitParsers == NoRun /\ tty \in BOOLEAN /\ call = NoCall

CallParser(fn, args) ==
    /\ call' = [fn |-> fn, args |-> args, ret |-> ApplyParser(fn, args)]
    /\ UNCHANGED <<run_vars, tty>>

CallParseSystemSummary ==
    \E data \in VersionResults : CallParser("parse_system_summary", <<data>>)
CallParseCpuStatus ==
    \E top_output \in TopResults : CallParser("parse_cpu_status", <<top_output>>)
CallParseFilesystemUsage ==
    \E df_output \in DfResults : CallParser("parse_filesystem_usage", <<df_output>>)
CallParseSystemErrors ==
    \E core_output \in CoreResults, agent_output \in AgentResults,
       syslog_output \in SyslogResults, pci_output \in PciResults :
        CallParser("parse_system_errors",
                   <<core_output, agent_output, syslog_output, pci_output>>)
CallParseFeatureHealth ==
    \E bgp_data \in BgpResults, mlag_data \in MlagResults, vxlan_data \in VxlanResults :
        CallParser("parse_feature_health", <<bgp_data, mlag_data, vxlan_data>>)
CallParseInterfaceHealth ==
    \E err_data \in ErrorCounterResults, disc_data \in DiscardCounterResults :
        CallParser("parse_interface_health", <<err_data, disc_data>>)
CallParseManagementHealth ==
    \E cvp_data \in CvpResults, stp_data \in StpResults :
        CallParser("parse_management_health", <<cvp_data, stp_data>>)
CallParseLldpNeighbors ==
    \E lldp_data \in LldpResults : CallParser("parse_lldp_neighbors", <<lldp_data>>)

NextParsers ==
    \/ CallParseSystemSummary
    \/ CallParseCpuStatus
    \/ CallParseFilesystemUsage
    \/ CallParseSystemErrors
    \/ CallParseFeatureHealth
    \/ CallParseInterfaceHealth
    \/ CallParseManagementHealth
    \/ CallParseLldpNeighbors

SpecParsers == InitParsers /\ [][NextParsers]_vars

IsParserCall == call.fn \notin {"none", "run_command"}

\* C4: every parser is total: whatever the shape of a successfully returned
\* payload (a counter record without inErrors or inDiscards, a neighbor
\* entry without 'port', a PCI counter that is not a number, a null BGP
\* 'reason'), the call returns a record and never raises.
C4_ParsersNeverRaise == IsParserCall => ~Raised(call.ret)

\* The payload of a successful command that reports nothing wrong, for the
\* i-th argument of a parser.
NothingWrong(fn, i) ==
    CASE fn = "parse_system_summary" -> VersionTree
      [] fn = "parse_cpu_status" -> TopOutput
      [] fn = "parse_filesystem_usage" -> DfOutput
      [] fn = "parse_system_errors" ->
            <<CoreListingEmpty, AgentLogsQuiet, SyslogQuiet, PciClean>>[i]
      [] fn = "parse_feature_health" -> <<BgpNoVrf, MlagDisabled, VxlanNone>>[i]
      [] fn = "parse_interface_health" -> <<ErrorCountersClean, DiscardCountersClean>>[i]
      [] fn = "parse_management_health" -> <<CvpNotConfigured, StpNoInstance>>[i]
      [] fn = "parse_lldp_neighbors" -> LldpNoNeighbor

\* C5: a Failed (None) input yields a record that differs from the one the
\* same parser produces when that command succeeded and reported nothing
\* wrong, the other inputs being the same.
C5_FailedInputIsDistinguished ==
    IsParserCall =>
        \A i \in 1..Len(call.args) :
            call.args[i] = None =>
                call.ret # ApplyParser(call.fn, [call.args EXCEPT ![i] = NothingWrong(call.fn, i)])

-----------------------------------------------------------------------------
(* main(): transport selection, collection, analysis, report *)

\* ' '.join(tokens)
RECURSIVE JoinTokens(_, _)
JoinTokens(tokens, i) ==
    IF i > Len(tokens) THEN ""
    ELSE (IF i > 1 THEN " " ELSE "") \o tokens[i] \o JoinTokens(tokens, i + 1)
CommandText(tokens) == JoinTokens(tokens, 1)

\* cmd.split(" | ")[0]: the tokens before the first "|" that has a token on
\* each side
KeyOf(cmd) ==
    LET bars == {i \in 2..(Len(cmd) - 1) : cmd[i] = "|"}
    IN IF bars = {} THEN cmd
       ELSE SubSeq(cmd, 1, (CHOOSE i \in bars : \A j \in bars : i <= j) - 1)

\* An entry with an empty neighbor port: 'port' is null.
LldpPortNull ==
    Dict(<< <<"lldpNeighbors",
              List(<< Dict(<< <<"port", None>>, <<"neighborDevice", Str("sw2")>> >>) >>)>> >>)

\* all_commands in iteration order: the command, whether it asks for
\* Structured output, the result of a healthy device and the other results
\* a device is known to give.
all_commands ==
    << [cmd |-> <<"show", "version">>, is_json |-> TRUE,
        nominal |-> VersionTree, others |-> {VersionTreeTextMemory}],
       [cmd |-> <<"show", "hostname">>, is_json |-> TRUE,
        nominal |-> HostnameTree, others |-> {}],
       [cmd |-> <<"show", "processes", "top", "once">>, is_json |-> FALSE,
        nominal |-> TopOutput, others |-> {TopOutputNoTable}],
       [cmd |-> <<"bash", "df", "-h">>, is_json |-> FALSE,
        nominal |-> DfOutput, others |-> {DfOutputHeaderOnly}],
       [cmd |-> <<"bash", "ls", "-l", "/var/core">>, is_json |-> FALSE,
        nominal |-> CoreListingEmpty, others |-> {CoreListingOneFile}],
       [cmd |-> <<"show", "agent", "logs", "crash">>, is_json |-> FALSE,
        nominal |-> AgentLogsQuiet, others |-> {AgentLogsTwoLines}],
       [cmd |-> <<"show", "logging", "|", "grep", "-E", "\"error|fail|crit|emerg|alert\"">>,
        is_json |-> FALSE,
        nominal |-> SyslogQuiet, others |-> {SyslogTwoLines}],
       [cmd |-> <<"show", "pci">>, is_json |-> TRUE,
        nominal |-> PciClean, others |-> {PciWithErrors, PciTextCounter}],
       [cmd |-> <<"show", "ip", "bgp", "summary">>, is_json |-> TRUE,
        nominal |-> BgpEstablished, others |-> {BgpPeerDown, BgpReasonNull}],
       [cmd |-> <<"show", "mlag">>, is_json |-> TRUE,
        nominal |-> MlagActive, others |-> {MlagDisabled}],
       [cmd |-> <<"show", "vxlan", "vni">>, is_json |-> TRUE,
        nominal |-> VxlanTwoVnis, others |-> {VxlanNone}],
       [cmd |-> <<"show", "interfaces", "counters", "errors">>, is_json |-> TRUE,
        nominal |-> ErrorCountersClean, others |-> {ErrorCountersBad, ErrorCountersOutOnly}],
       [cmd |-> <<"show", "interfaces", "counters", "discards">>, is_json |-> TRUE,
        nominal |-> DiscardCountersClean, others |-> {DiscardCountersOutOnly}],
       [cmd |-> <<"show", "run", "|", "grep", "TerminAttr">>, is_json |-> FALSE,
        nominal |-> CvpConfigured, others |-> {CvpNotConfigured}],
       [cmd |-> <<"show", "spanning-tree", "root", "detail">>, is_json |-> TRUE,
        nominal |-> StpOneInstance, others |-> {StpNoInstance}],
       [cmd |-> <<"show", "lldp", "neighbors">>, is_json |-> TRUE,
        nominal |-> LldpOneNeighbor, others |-> {LldpEntryWithoutPort, LldpPortNull}] >>

\* The keys main() reads from raw_data for the parsers (lines 652-664)
ParserKeys ==
    {"show version", "show processes top once", "bash df -h", "bash ls -l /var/core",
     "show agent logs crash", "show logging", "show pci", "show ip bgp summary",
     "show mlag", "show vxlan vni", "show interfaces counters errors",
     "show interfaces counters discards", "show run", "show spanning-tree root detail",
     "show lldp neighbors"}

\* How many answers of the environment may differ from a healthy device's.
MaxAnomalies == 1

\* What the transport of `self` answers to a command: the payload ("Ok"),
\* a failed command ("Failed"), no answer in time ("Timeout"), or no client
\* binary to run ("Missing", where a child process is spawned).
ResponseOf(self, is_json, kind, payload) ==
    LET api == Transport(self) = "RemoteAPI"
    IN CASE kind = "Ok" ->
              IF api
              THEN [kind |-> "body",
                    out |-> JsonText(ResultEnvelope(IF is_json THEN payload
                                                    ELSE TextResult(payload)))]
              ELSE [kind |-> "stdout", out |-> IF is_json THEN JsonText(payload) ELSE payload]
         [] kind = "Failed" -> [kind |-> IF api THEN "URLError" ELSE "CalledProcessError"]
         [] kind = "Timeout" -> [kind |-> IF api THEN "socket.timeout" ELSE "TimeoutExpired"]
         [] kind = "Missing" -> [kind |-> IF api THEN "URLError" ELSE "FileNotFoundError"]

Event(op, arg) == [op |-> op, arg |-> arg]
EventsOf(tr, op) == SelectSeq(tr, LAMBDA e : e.op = op)
\* What a hostname lookup returned, for the trace
Outcome(r) == IF Raised(r) THEN r.exc ELSE IF r.val = None THEN "Failed" ELSE "Ok"

ShowHostname == <<"show", "hostname">>
\* socket.gethostname() of the machine the script runs on
LocalName == "workstation"
\* The host strings the user enters
Hosts == {"10.0.0.1"}

\* What FastCli answers to _get_local_hostname
LocalHostnameAnswers ==
    { [kind |-> "stdout", out |-> JsonText(HostnameTree)],
      [kind |-> "stdout", out |-> JsonText(Dict(<<>>))],
      [kind |-> "stdout", out |-> InvalidInputText],
      [kind |-> "CalledProcessError"],
      [kind |-> "FileNotFoundError"] }

\* What urlopen does to the probe of _setup_remote_connection: it answers,
\* the connection is refused (URLError), credentials are rejected
\* (HTTPError), nothing arrives within 10 s (socket.timeout), the answer is
\* not HTTP (BadStatusLine), the peer resets the connection.
ProbeOutcomes ==
    {"ok", "URLError", "HTTPError", "socket.timeout", "BadStatusLine", "ConnectionResetError"}

\* The exceptions the except clause of _setup_remote_connection names, with
\* their subclasses
CaughtBySetup ==
    {"URLError", "HTTPError", "socket.timeout", "ValueError", "JSONDecodeError",
     "UnicodeDecodeError"}

\* CommandExecutor._get_local_hostname
get_local_hostname(resp) ==
    LET out == subprocess_output(resp)
        loaded == IF Raised(out) THEN out ELSE json_loads(out.val)
    IN IF Raised(loaded)
       THEN IF loaded.exc \in {"CalledProcessError", "FileNotFoundError", "JSONDecodeError"}
            THEN Ret(Str(LocalName)) ELSE loaded
       ELSE IF IsDict(loaded.val) THEN Ret(Get(loaded.val, "hostname", Str("arista")))
       ELSE Raise("AttributeError")

\* What _setup_remote_connection leaves behind: the executor, whether the
\* connection is set up, the exception that leaves the method ("" if none)
\* and the trace.
SetupResult(self, ok, exc, tr) == [self |-> self, ok |-> ok, exc |-> exc, trace |-> tr]

\* data = self.run_command('show hostname') over the transport of self
Lookup(self, kind) ==
    run_command(self, ShowHostname, TRUE, ResponseOf(self, TRUE, kind, HostnameTree))
\* The trace once the lookup has returned or raised `data`
Looked(tr, self, data) ==
    tr \o << Event("lookup", Transport(self)), Event("lookup_result", Outcome(data)) >>

\* self.hostname = data.get('hostname', host); return True
hostname_from(self, host, data, tr) ==
    IF ~IsDict(data) THEN SetupResult(self, FALSE, "AttributeError", tr)
    ELSE SetupResult([self EXCEPT !.hostname = Get(data, "hostname", Str(host))], TRUE, "", tr)

\* Lines 128-132, `data` being what run_command did
ssh_lookup_done(self, host, data, tr) ==
    IF Raised(data) THEN SetupResult(self, FALSE, data.exc, tr)
    ELSE IF ~Truthy(data.val)
    THEN SetupResult([self EXCEPT !.hostname = Str(host)], TRUE, "", tr)
    ELSE hostname_from(self, host, data.val, tr)

\* The except branch of _setup_remote_connection (lines 123-135): the
\* fallback to ssh.
ssh_fallback(self, host, ssh_on_path, kind, tr) ==
    IF ~ssh_on_path
    THEN SetupResult(self, FALSE, "",
                     tr \o << Event("fallback", "ssh"), Event("ssh_path", "missing") >>)
    ELSE ssh_lookup_done(self, host, Lookup(self, kind),
             Looked(tr \o << Event("fallback", "ssh"), Event("ssh_path", "found") >>,
                    self, Lookup(self, kind)))

\* Lines 120-122, `data` being what run_command did: an exception the
\* except clause names leads to the fallback.
api_lookup_done(self, host, data, tr, ssh_on_path, kind2) ==
    IF Raised(data)
    THEN IF data.exc \in CaughtBySetup
         THEN ssh_fallback(self, host, ssh_on_path, kind2, tr)
         ELSE SetupResult(self, FALSE, data.exc, tr)
    ELSE hostname_from(self, host, data.val, tr)

\* CommandExecutor._setup_remote_connection: `probe` is what urlopen does,
\* kind1 and kind2 what the device does with the hostname lookups.
setup_remote_connection(self, host, probe, ssh_on_path, kind1, kind2) ==
    IF probe = "ok"
    THEN api_lookup_done([self EXCEPT !.ssh_host = host, !.eapi_usable = TRUE], host,
             Lookup([self EXCEPT !.eapi_usable = TRUE], kind1),
             Looked(<< Event("probe", probe) >>, [self EXCEPT !.eapi_usable = TRUE],
                    Lookup([self EXCEPT !.eapi_usable = TRUE], kind1)),
             ssh_on_path, kind2)
    ELSE IF probe \in CaughtBySetup
    THEN ssh_fallback([self EXCEPT !.ssh_host = host], host, ssh_on_path, kind2,
                      << Event("probe", probe) >>)
    ELSE SetupResult([self EXCEPT !.ssh_host = host], FALSE, probe, << Event("probe", probe) >>)

\* self as __init__ leaves it before the marker is looked for
NewExecutor(name) ==
    [mode |-> "local", eapi_usable |-> FALSE, ssh_host |-> "", hostname |-> name]

\* CommandExecutor.__init__ (lines 71-86): marker is
\* os.path.exists('/usr/bin/FastCli'), name what _get_local_hostname did.
init_executor(name, marker, host, probe, ssh_on_path, kind1, kind2) ==
    IF Raised(name) THEN SetupResult(NewExecutor(NoValue), FALSE, name.exc, <<>>)
    ELSE IF marker
    THEN SetupResult(NewExecutor(name.val), TRUE, "", << Event("marker", "present") >>)
    ELSE [setup_remote_connection([NewExecutor(name.val) EXCEPT !.mode = "remote"],
                                  host, probe, ssh_on_path, kind1, kind2)
          EXCEPT !.trace = << Event("marker", "absent") >> \o @]

\* The executor main() holds
Executor ==
    [mode |-> mode, eapi_usable |-> eapi_usable, ssh_host |-> ssh_host, hostname |-> hostname]

Init ==
    /\ pc = "start" /\ mode = "local" /\ eapi_usable = FALSE /\ hostname = NoValue
    /\ ssh_host = "" /\ idx = 0 /\ raw_data = <<>> /\ health_data = NoValue
    /\ report = NoValue /\ log_file = NoValue /\ trace = <<>> /\ uncaught = ""
    /\ link = "up" /\ anomalies = 0
    /\ tty \in BOOLEAN /\ call = NoCall

\* How many of the answers given to __init__ differ from the nominal ones:
\* FastCli answers with the hostname where the marker exists and is missing
\* where it does not, the probe is answered or refused, ssh is on the path,
\* the lookups are answered.
ConstructAnomalies(local_resp, marker, probe, ssh_on_path, kind1, kind2) ==
    LET B(b) == IF b THEN 1 ELSE 0
    IN B(local_resp # (IF marker THEN [kind |-> "stdout", out |-> JsonText(HostnameTree)]
                       ELSE [kind |-> "FileNotFoundError"]))
       + B(probe \notin {"ok", "URLError"}) + B(~ssh_on_path)
       + B(kind1 # "Ok") + B(kind2 # "Ok")

\* executor = CommandExecutor() (line 631): sys.exit() when no remote
\* connection is set up, the handler of main() for any other exception.
Construct ==
    /\ pc = "start"
    /\ \E local_resp \in LocalHostnameAnswers, marker \in BOOLEAN, host \in Hosts,
          probe \in ProbeOutcomes, ssh_on_path \in BOOLEAN,
          kind1 \in {"Ok", "Failed", "Timeout"}, kind2 \in {"Ok", "Failed", "Timeout"} :
         \E r \in {init_executor(get_local_hostname(local_resp), marker, host, probe,
                                 ssh_on_path, kind1, kind2)} :
            \* an answer nobody asked for is the nominal one
            /\ marker => probe = "ok"
            /\ (marker \/ probe # "ok") => kind1 = "Ok"
            /\ EventsOf(r.trace, "fallback") = <<>> => ssh_on_path
            /\ (EventsOf(r.trace, "fallback") = <<>> \/ ~ssh_on_path) => kind2 = "Ok"
            /\ ConstructAnomalies(local_resp, marker, probe, ssh_on_path, kind1, kind2)
                   <= MaxAnomalies
            /\ anomalies' =
                   ConstructAnomalies(local_resp, marker, probe, ssh_on_path, kind1, kind2)
            /\ mode' = r.self.mode
            /\ eapi_usable' = r.self.eapi_usable
            /\ ssh_host' = r.self.ssh_host
            /\ hostname' = r.self.hostname
            /\ trace' = r.trace
            /\ uncaught' = r.exc
            /\ pc' = IF r.exc # "" THEN "unexpected" ELSE IF r.ok THEN "collect" ELSE "fatal"
    /\ UNCHANGED <<idx, raw_data, health_data, report, log_file, link, tty, call>>

\* The answers the device may give to catalog entry i: what kind of answer,
\* with which payload, whether the device stops answering from here on, and
\* whether the answer counts as an anomaly.
AnswersTo(i) ==
    LET entry == all_commands[i]
        answer(kind, payload, outage, cost) ==
            [kind |-> kind, payload |-> payload, outage |-> outage, cost |-> cost]
    IN IF link = "down" THEN {answer("Failed", None, TRUE, 0)}
       ELSE {answer("Ok", entry.nominal, FALSE, 0)}
            \cup {answer("Ok", p, FALSE, 1) : p \in entry.others}
            \cup {answer(k, None, FALSE, 1) : k \in {"Failed", "Timeout", "Missing"}}
            \cup {answer("Failed", None, TRUE, 1)}

\* One iteration of the collection loop (lines 644-647)
Collect ==
    /\ pc = "collect"
    /\ LET entry == all_commands[idx + 1]
           key == CommandText(KeyOf(entry.cmd))
       IN \E a \in AnswersTo(idx + 1) :
          \E r \in {run_command(Executor, entry.cmd, entry.is_json,
                                ResponseOf(Executor, entry.is_json, a.kind, a.payload))} :
               /\ anomalies + a.cost <= MaxAnomalies
               /\ anomalies' = anomalies + a.cost
               /\ link' = IF a.outage THEN "down" ELSE link
               /\ trace' = Append(trace, Event("run", CommandText(entry.cmd)))
               /\ IF Raised(r)
                  THEN /\ pc' = "unexpected" /\ uncaught' = r.exc
                       /\ UNCHANGED <<raw_data, idx>>
                  ELSE /\ raw_data' = [k \in DOMAIN raw_data \cup {key} |->
                                          IF k = key THEN r.val ELSE raw_data[k]]
                       /\ idx' = idx + 1
                       /\ pc' = IF idx + 1 = Len(all_commands) THEN "analyze" ELSE "collect"
                       /\ UNCHANGED uncaught
    /\ UNCHANGED <<mode, eapi_usable, hostname, ssh_host, health_data, report, log_file,
                   tty, call>>

\* The first exception of a sequence of results, "" if none raised
RECURSIVE FirstRaised(_, _)
FirstRaised(results, i) ==
    IF i > Len(results) THEN ""
    ELSE IF Raised(results[i]) THEN results[i].exc ELSE FirstRaised(results, i + 1)

\* health_data = {...} (lines 651-666): the parsers in the order written
Analyze ==
    /\ pc = "analyze"
    /\ \E system \in {parse_system_summary(raw_data["show version"])},
          cpu \in {parse_cpu_status(raw_data["show processes top once"])},
          filesystem \in {parse_filesystem_usage(raw_data["bash df -h"])},
          errors \in {parse_system_errors(
                          raw_data["bash ls -l /var/core"], raw_data["show agent logs crash"],
                          raw_data["show logging"], raw_data["show pci"])},
          features \in {parse_feature_health(
                            raw_data["show ip bgp summary"], raw_data["show mlag"],
                            raw_data["show vxlan vni"])},
          interfaces \in {parse_interface_health(
                              raw_data["show interfaces counters errors"],
                              raw_data["show interfaces counters discards"])},
          management \in {parse_management_health(
                              raw_data["show run"], raw_data["show spanning-tree root detail"])},
          lldp \in {parse_lldp_neighbors(raw_data["show lldp neighbors"])} :
         \E exc \in {FirstRaised(<<system, cpu, filesystem, errors, features, interfaces,
                                   management, lldp>>, 1)} :
            IF exc # ""
            THEN pc' = "unexpected" /\ uncaught' = exc /\ UNCHANGED health_data
            ELSE /\ health_data' =
                        [system |-> system.val, cpu |-> cpu.val, filesystem |-> filesystem.val,
                         errors |-> errors.val, features |-> features.val,
                         interfaces |-> interfaces.val, management |-> management.val,
                         lldp |-> lldp.val, hostname |-> hostname]
                 /\ pc' = "report" /\ UNCHANGED uncaught
    /\ UNCHANGED <<mode, eapi_usable, hostname, ssh_host, idx, raw_data, report, log_file,
                   trace, link, anomalies, tty, call>>

\* The UTC times a report is generated at
Timestamps == { <<"2024-01-01", "00:00:00">>, <<"2024-01-01", "00:00:01">> }

\* summary_report = format_summary_report(health_data) (line 669)
Report ==
    /\ pc = "report"
    /\ \E now \in Timestamps :
         \E r \in {format_summary_report(health_data, now)} :
            IF Raised(r)
            THEN pc' = "unexpected" /\ uncaught' = r.exc /\ UNCHANGED report
            ELSE pc' = "save" /\ report' = r.val /\ UNCHANGED uncaught
    /\ UNCHANGED <<mode, eapi_usable, hostname, ssh_host, idx, raw_data, health_data,
                   log_file, trace, link, anomalies, tty, call>>

\* LOG_DIR_LOCAL (line 42)
LOG_DIR_LOCAL == "/mnt/flash/"

\* log_path (line 535): LOG_DIR_LOCAL where that directory exists, "." elsewhere
log_path(flash_exists) == IF flash_exists THEN LOG_DIR_LOCAL ELSE "."

\* os.path.join(log_path, filename) for a file name that is not absolute: a
\* "/" is put between the two unless the directory ends with one
path_join(dir, filename) ==
    FStr(<<Lit(<<IF dir = LOG_DIR_LOCAL THEN dir ELSE dir \o "/">>), filename>>)

\* save_log_file(hostname, report, raw_data): full_path, the path written,
\* None when the file cannot be written (IOError)
save_log_file(name, flash_exists, written) ==
    IF written
    THEN Text(path_join(log_path(flash_exists),
                        FStr(<<StrOf(name), Lit(<<"_health-check_<timestamp>.log">>)>>)))
    ELSE None

\* log_file = save_log_file(...) (line 673)
Save ==
    /\ pc = "save"
    /\ \E written, flash_exists \in BOOLEAN :
          log_file' = save_log_file(hostname, flash_exists, written)
    /\ pc' = "menu"
    /\ UNCHANGED <<mode, eapi_usable, hostname, ssh_host, idx, raw_data, health_data,
                   report, trace, uncaught, link, anomalies, tty, call>>

\* display_menu (line 675): the report is shown again until the user exits
Menu ==
    /\ pc = "menu"
    /\ \E choice \in {"1", "2", "3", "4", ""} :
         pc' = IF choice = "4" THEN "done" ELSE "menu"
    /\ UNCHANGED <<mode, eapi_usable, hostname, ssh_host, idx, raw_data, health_data,
                   report, log_file, trace, uncaught, link, anomalies, tty, call>>

Next ==
    \/ Construct
    \/ Collect
    \/ Analyze
    \/ Report
    \/ Save
    \/ Menu

Spec == Init /\ [][Next]_vars

\* The commands the collection loop has handed to run_command, in order
CommandsRun == [i \in 1..Len(EventsOf(trace, "run")) |-> EventsOf(trace, "run")[i].arg]
\* The catalog's commands in order
CatalogCommands == [i \in 1..Len(all_commands) |-> CommandText(all_commands[i].cmd)]
\* Data collection has started and is over, normally or not
CollectionOver == CommandsRun # <<>> /\ pc # "collect"

\* Transport selection is over and has chosen a transport
SelectionSucceeded ==
    pc \notin {"start", "fatal"} /\ ~(pc = "unexpected" /\ CommandsRun = <<>>)
\* What __init__ and _setup_remote_connection went through
MarkerSeen == EventsOf(trace, "marker")
Probes == EventsOf(trace, "probe")
Fallbacks == EventsOf(trace, "fallback")
SshPathChecks == EventsOf(trace, "ssh_path")
Lookups == EventsOf(trace, "lookup")
LookupResults == EventsOf(trace, "lookup_result")

\* C2: once transport selection has succeeded the run never leaves through
\* the handler of unexpected errors: whatever the 16 commands return, main
\* builds the health data and produces the report.
C2_RunReachesReport == SelectionSucceeded => pc # "unexpected"

\* C3: the collection loop hands every catalog entry to run_command exactly
\* once and in catalog order, a failed entry does not keep later entries
\* from running, and when collection is over raw_data holds one result for
\* each of the 16 entries, under 16 distinct keys that include every key the
\* parsers read.
C3_EveryEntryCollectedOnce ==
    /\ Len(CommandsRun) <= Len(CatalogCommands)
    /\ CommandsRun = SubSeq(CatalogCommands, 1, Len(CommandsRun))
    /\ CollectionOver =>
          /\ CommandsRun = CatalogCommands
          /\ Cardinality(DOMAIN raw_data) = Len(all_commands)
          /\ ParserKeys \subseteq DOMAIN raw_data

\* C6: transport selection. Local is chosen when the marker exists;
\* otherwise the API is probed once, RemoteAPI is chosen when the probe
\* succeeds, and a probe that fails for whatever reason is followed by
\* exactly one fallback to ssh, RemoteShell being chosen iff ssh is on the
\* path; when no remote transport is viable the run ends fatally without
\* having run a catalog command.
C6_TransportSelection ==
    pc # "start" =>
        /\ Len(MarkerSeen) = 1
        /\ MarkerSeen[1].arg = "present" =>
              Transport(Executor) = "Local" /\ Probes = <<>> /\ Fallbacks = <<>>
        /\ MarkerSeen[1].arg = "absent" =>
              /\ Len(Probes) = 1
              /\ Probes[1].arg = "ok" => Transport(Executor) = "RemoteAPI"
              /\ Probes[1].arg # "ok" =>
                    /\ Len(Fallbacks) = 1 /\ Len(SshPathChecks) = 1
                    /\ SshPathChecks[1].arg = "found" =>
                          Transport(Executor) = "RemoteShell" /\ pc # "fatal"
                    /\ SshPathChecks[1].arg = "missing" => pc = "fatal"
        /\ pc = "fatal" => CommandsRun = <<>> /\ raw_data = <<>>

\* C7: after a remote transport is chosen the hostname is looked up through
\* that transport, and when the lookup returns Failed the hostname shown is
\* the host string the user entered and the run goes on to data collection.
C7_FailedLookupFallsBackToHost ==
    (pc # "start" /\ mode = "remote") =>
        /\ SelectionSucceeded =>
              Lookups # <<>> /\ Lookups[Len(Lookups)].arg = Transport(Executor)
        /\ (LookupResults # <<>> /\ LookupResults[Len(LookupResults)].arg = "Failed") =>
              /\ hostname = Str(ssh_host)
              /\ pc \notin {"unexpected", "fatal"}

-----------------------------------------------------------------------------
(* color_by_threshold applied on its own *)

\* The floats handed to color_by_threshold, in hundredths: what
\* f"{(1 - mem_free_kb / mem_total_kb) * 100:.2f}" gives around the cut
\* points, and below zero when a device reports more free than total memory.
ThresholdSamples ==
    {-9000, -8000, -100, 0, 1, 590, 7499, 7500, 7501, 8999, 9000, 9001, 10000}
\* The <<warn, crit>> pairs: the one format_summary_report passes, and two others
ThresholdPairs == { <<75, 90>>, <<50, 80>>, <<0, 100>>, <<75, 75>>, <<90, 100>> }

\* The calls color_by_threshold(f"{x:.2f}", warn, crit) to make
ThresholdCalls ==
    {[fn |-> "color_by_threshold", x |-> x,
      value_str |-> Text(Lit(<<Format2(x < 0, Abs(x))>>)),
      warn |-> th[1], crit |-> th[2], called |-> FALSE, ret |-> <<>>] :
        x \in ThresholdSamples, th \in ThresholdPairs}

InitThreshold == NoRun /\ tty \in BOOLEAN /\ call \in ThresholdCalls

\* The call is made
CallColorByThreshold ==
    /\ call.fn = "color_by_threshold" /\ ~call.called
    /\ call' = [call EXCEPT !.called = TRUE,
                            !.ret = color_by_threshold(call.value_str, call.warn, call.crit)]
    /\ UNCHANGED <<run_vars, tty>>

SpecThreshold == InitThreshold /\ [][CallColorByThreshold]_vars

IsThresholdCall == call.fn = "color_by_threshold" /\ call.called

\* The tier of the float x (in hundredths) under warn and crit
TierOf(x, warn, crit) ==
    IF x >= crit * 100 THEN "FAIL" ELSE IF x >= warn * 100 THEN "WARNING" ELSE "OKGREEN"

\* C11: on a terminal, every numeric value x is marked Critical iff
\* x >= crit, Warning iff warn <= x < crit and Ok otherwise, a value equal
\* to a cut point taking the higher tier.
C11_ClassifiedByThreshold ==
    (IsThresholdCall /\ tty) =>
        call.ret = FStr(<<Colors(TierOf(call.x, call.warn, call.crit)),
                          call.value_str.lines, Colors("RESET")>>)

-----------------------------------------------------------------------------
(* The BGP part of parse_feature_health applied on its own *)

\* The most peers the default VRF holds
MaxPeers == 3
PeerAddresses == <<"10.0.0.1", "10.0.0.2", "10.0.0.3", "10.0.0.4">>
PeerStates == {"Established", "Active", "Idle"}
\* The peer tables: the state of each peer, in the order of the addresses
PeerTables == UNION {[1..n -> PeerStates] : n \in 0..MaxPeers}

\* 'show ip bgp summary': vrfs holds a default VRF or only another one; the
\* default VRF holds its router ID, its peers and, when BGP is inactive,
\* the reason.
BgpSummaryOf(has_default, missing_router_id, states) ==
    LET peers == Dict([i \in 1..Len(states) |->
                          <<PeerAddresses[i], Dict(<< <<"peerState", Str(states[i])>> >>)>>])
        reason == IF missing_router_id
                  THEN << <<"reason", Text(Lit(<<"BGP", "is", "inactive:", "Missing",
                                                 "Router", "ID">>))>> >>
                  ELSE <<>>
        vrf == Dict(reason \o << <<"routerId", Str("1.1.1.1")>>, <<"peers", peers>> >>)
    IN Dict(<< <<"vrfs", Dict(<< <<IF has_default THEN "default" ELSE "mgmt", vrf>> >>)>> >>)

\* The calls parse_feature_health(bgp_data, None, None) to make
BgpCalls ==
    [fn : {"parse_feature_health.bgp"}, has_default : BOOLEAN,
     missing_router_id : BOOLEAN, states : PeerTables, ret : {NoValue}]

InitBgp == NoRun /\ tty \in BOOLEAN /\ call \in BgpCalls

\* The call is made
CallParseBgp ==
    /\ call.fn = "parse_feature_health.bgp" /\ call.ret = NoValue
    /\ call' = [call EXCEPT !.ret = parse_feature_health(
                        BgpSummaryOf(call.has_default, call.missing_router_id, call.states),
                        None, None)]
    /\ UNCHANGED <<run_vars, tty>>

SpecBgp == InitBgp /\ [][CallParseBgp]_vars

IsBgpCall == call.fn = "parse_feature_health.bgp" /\ call.ret # NoValue
\* The peers of the call in a given state
PeersIn(state) == {i \in 1..Len(call.states) : call.states[i] = state}
\* A str marked with a colour
Marked(color, text) == Text(FStr(<<Colors(color), text, Colors("RESET")>>))
\* "<up>/<total> peers established."
EstablishedCount(up, total) ==
    FStr(<<Lit(<<ToString(up) \o "/" \o ToString(total)>>), SP, Lit(<<"peers", "established.">>)>>)

\* C12: on a terminal the BGP status is: 'not configured' without a default
\* VRF; Critical for a missing router ID whatever the peers; Warning for a
\* router ID without peers; for N >= 1 peers the first line counts the
\* established peers out of N, marked Ok iff all N are established and
\* Critical otherwise, and each peer in state Active is listed as Warning.
C12_BgpStateMachine ==
    (IsBgpCall /\ tty) =>
        /\ ~Raised(call.ret)
        /\ LET bgp == call.ret.val.bgp
               total == Len(call.states)
               up == Cardinality(PeersIn("Established"))
           IN CASE ~call.has_default -> bgp = BgpNotConfigured
                [] call.has_default /\ call.missing_router_id ->
                      bgp = Marked("FAIL", Lit(<<"BGP", "is", "disabled", "(Missing",
                                                 "Router", "ID)">>))
                [] call.has_default /\ ~call.missing_router_id /\ total = 0 ->
                      bgp = Marked("WARNING",
                                   Lit(<<"BGP", "is", "enabled", "(Router", "ID:", "1.1.1.1)",
                                         "but", "has", "no", "configured", "neighbors.">>))
                [] OTHER ->
                      /\ <<bgp.lines[1]>> =
                            Marked(IF up = total THEN "OKGREEN" ELSE "FAIL",
                                   EstablishedCount(up, total)).lines
                      /\ Len(bgp.lines) = 1 + (total - up)
                      /\ \A i \in PeersIn("Active") :
                            \E k \in 2..Len(bgp.lines) :
                               bgp.lines[k] = <<"Peer", PeerAddresses[i], "is", "in", "state",
                                                "<WARNING>Active<RESET>">>

\* Two peers or more, exactly one of them Active and the others Established
C12_Witness ==
    /\ IsBgpCall /\ tty /\ call.has_default /\ ~call.missing_router_id
    /\ Len(call.states) >= 2
    /\ Cardinality(PeersIn("Active")) = 1
    /\ Cardinality(PeersIn("Established")) = Len(call.states) - 1
    /\ ~Raised(call.ret)

-----------------------------------------------------------------------------
(* Core-dump detection *)

IsSystemErrorsCall == call.fn = "parse_system_errors" /\ ~Raised(call.ret)
\* The lines of the listing handed to parse_system_errors
CoreListingLines ==
    IF call.args[1].t = "str" THEN splitlines(call.args[1].lines) ELSE <<>>

\* C13: a core listing that is the single line "total 0" yields 'not
\* found', and a listing that is that line followed by one entry line yields
\* 'found'.
C13_CoreDumpDetection ==
    IsSystemErrorsCall =>
        /\ CoreListingLines = << <<"total", "0">> >> =>
              call.ret.val.core_dumps = NoCoreFiles
        /\ (/\ Len(CoreListingLines) = 2
            /\ CoreListingLines[1] = <<"total", "0">>
            /\ CoreListingLines[2] # <<>>) =>
              call.ret.val.core_dumps # NoCoreFiles

-----------------------------------------------------------------------------
(* parse_filesystem_usage applied on its own *)

\* The most rows a listing holds after its header
MaxRows == 2
DfHeader == <<"Filesystem", "Size", "Used", "Avail", "Use%", "Mounted", "on">>
\* Rows of 'df -h': monitored mounts with a device, without one, with a
\* device name of two words, a row of four columns, other mounts, a blank
\* line.
DfRows ==
    { <<"overlay", "100M", "10M", "90M", "10%", "/mnt/flash">>,
      <<"tmpfs", "1.0G", "900M", "100M", "90%", "/var/log">>,
      <<"100M", "10M", "90M", "10%", "/var/core">>,
      <<"/dev/mapper/vg", "data", "8G", "1G", "7G", "13%", "/var/core">>,
      <<"10M", "90M", "10%", "/mnt/flash">>,
      <<"none", "1G", "2G", "3G", "4%", "/">>,
      <<"tmpfs", "1G", "0", "1G", "0%", "/mnt/flash/sub">>,
      <<>> }
\* The mount point of a row, "" for a blank line
MountOf(row) == IF row = <<>> THEN "" ELSE Last(row)
\* The listings: df prints one row for each mount point
DfListings ==
    {rows \in UNION {[1..n -> DfRows] : n \in 0..MaxRows} :
        \A i, j \in 1..Len(rows) : i # j => MountOf(rows[i]) # MountOf(rows[j])}
\* The output of 'df -h' for the rows of a listing
DfText(rows) == Text(<<DfHeader>> \o rows \o << <<>> >>)

\* The calls parse_filesystem_usage(output) to make
DfCalls == [fn : {"parse_filesystem_usage.rows"}, rows : DfListings, ret : {NoValue}]

InitDf == NoRun /\ tty \in BOOLEAN /\ call \in DfCalls

\* The call is made
CallParseDf ==
    /\ call.fn = "parse_filesystem_usage.rows" /\ call.ret = NoValue
    /\ call' = [call EXCEPT !.ret = parse_filesystem_usage(DfText(call.rows))]
    /\ UNCHANGED <<run_vars, tty>>

SpecDf == InitDf /\ [][CallParseDf]_vars

IsDfCall == call.fn = "parse_filesystem_usage.rows" /\ call.ret # NoValue
\* The rows of the call the claim says are retained
RetainedRows ==
    {i \in 1..Len(call.rows) :
        /\ Len(call.rows[i]) >= 5
        /\ MountOf(call.rows[i]) \in {"/mnt/flash", "/var/log", "/var/core"}}
\* The record the claim says a row is retained as
UsageOf(row) ==
    [fs_device |-> Text(IF Len(row) > 5 THEN <<SubSeq(row, 1, Len(row) - 5)>> ELSE <<>>),
     size |-> Str(row[Len(row) - 4]), used |-> Str(row[Len(row) - 3]),
     avail |-> Str(row[Len(row) - 2]), use_pct |-> Str(row[Len(row) - 1])]

\* C14: every row that ends with an allow-listed mount and has five
\* columns or more is retained under that mount with its size, used, avail
\* and use% columns and its device name; every other row is dropped, so the
\* keys of the result are among the allow-listed mounts.
C14_FilesystemRows ==
    IsDfCall =>
        /\ ~Raised(call.ret)
        /\ DOMAIN call.ret.val \subseteq {"/mnt/flash", "/var/log", "/var/core"}
        /\ \A i \in RetainedRows :
              /\ MountOf(call.rows[i]) \in DOMAIN call.ret.val
              /\ call.ret.val[MountOf(call.rows[i])] = UsageOf(call.rows[i])
        /\ \A m \in DOMAIN call.ret.val : \E i \in RetainedRows : MountOf(call.rows[i]) = m

\* The row "overlay 100M 10M 90M 10% /mnt/flash" next to a row of another
\* mount: the first is retained, the second dropped
C14_Witness ==
    /\ IsDfCall /\ ~Raised(call.ret)
    /\ \E i, j \in 1..Len(call.rows) :
          /\ call.rows[i] = <<"overlay", "100M", "10M", "90M", "10%", "/mnt/flash">>
          /\ MountOf(call.rows[j]) = "/"
    /\ DOMAIN call.ret.val = {"/mnt/flash"}
    /\ call.ret.val["/mnt/flash"].size = Str("100M")
    /\ call.ret.val["/mnt/flash"].use_pct = Str("10%")

-----------------------------------------------------------------------------
(* Flaps: the system log and the interface counters of one device *)

\* The most state changes of one interface, or of one BGP peer, in the log
MaxFlaps == 12

\* A link up/down line of the system log for Ethernet1, and an adjacency
\* change line for the BGP peer 10.0.0.2
LinkChangeLine ==
    <<"Jan", "1", "00:00:01", "sw1", "Ebra:", "%LINEPROTO-5-UPDOWN:", "Line", "protocol",
      "on", "Interface", "Ethernet1,", "changed", "state", "to", "down">>
AdjacencyChangeLine ==
    <<"Jan", "1", "00:00:02", "sw1", "Bgp:", "%BGP-5-ADJCHANGE:", "peer", "10.0.0.2",
      "(AS", "65001)", "old", "state", "Established", "event", "Stop", "new", "state", "Idle">>

\* 'show logging' with n link changes of Ethernet1 and k adjacency changes
FlapLog(n, k) ==
    IF n + k = 0 THEN Text(<<>>)
    ELSE Text([i \in 1..(n + k) |-> IF i <= n THEN LinkChangeLine ELSE AdjacencyChangeLine]
              \o << <<>> >>)
\* 'show interfaces counters errors' of the same device: Ethernet1 has
\* changed state n times and has no errors
FlapCounters(n) ==
    Dict(<< <<"interfaceErrorCounters",
              Dict(<< <<"Ethernet1", Dict(<< <<"inErrors", Num(0)>>, <<"outErrors", Num(0)>>,
                                             <<"linkStatusChanges", Num(n)>> >>)>> >>)>> >>)

\* The analyses to make of a device whose log holds link_changes and
\* adjacency_changes
FlapCalls ==
    [fn : {"flaps"}, link_changes : 0..MaxFlaps, adjacency_changes : 0..MaxFlaps,
     ret : {NoValue}]

InitFlaps == NoRun /\ tty \in BOOLEAN /\ call \in FlapCalls

\* The two parsers main() hands the log and the counters to (lines 655-661)
AnalyzeFlaps ==
    /\ call.fn = "flaps" /\ call.ret = NoValue
    /\ call' = [call EXCEPT !.ret =
                   [errors |-> parse_system_errors(
                                   None, None,
                                   FlapLog(call.link_changes, call.adjacency_changes), None),
                    interfaces |-> parse_interface_health(
                                       FlapCounters(call.link_changes), None)]]
    /\ UNCHANGED <<run_vars, tty>>

SpecFlaps == InitFlaps /\ [][AnalyzeFlaps]_vars

IsFlapsCall == call.fn = "flaps" /\ call.ret # NoValue
\* The flap entries of the health data that name an entity
FlapsNaming(name) ==
    {i \in 1..Len(call.ret.interfaces.val.link_flaps) :
        LineContains(call.ret.interfaces.val.link_flaps[i].lines[1], name)}

\* C15: an interface, or a BGP peer, is reported as flapping iff the log
\* holds more than 2 of its state changes, and the interface is reported
\* with its count.
C15_FlapsOverThresholdReported ==
    IsFlapsCall =>
        /\ ~Raised(call.ret.errors) /\ ~Raised(call.ret.interfaces)
        /\ (call.link_changes > 2) <=>
              (\E i \in FlapsNaming("Ethernet1:") :
                  LineContains(call.ret.interfaces.val.link_flaps[i].lines[1],
                               ToString(call.link_changes)))
        /\ (call.adjacency_changes > 2) <=> (FlapsNaming("10.0.0.2") # {})

-----------------------------------------------------------------------------
(* The analysis run twice on the same results *)

\* How many times the analysis is run on one set of results
MaxRuns == 2

\* raw_data of a device that answers every command as a healthy one does,
\* except for catalog entry i, which gave `payload` (i = 0: no exception)
RawDataWith(i, payload) ==
    [k \in {CommandText(KeyOf(all_commands[j].cmd)) : j \in 1..Len(all_commands)} |->
        LET j == CHOOSE j \in 1..Len(all_commands) : CommandText(KeyOf(all_commands[j].cmd)) = k
        IN IF j = i THEN payload ELSE all_commands[j].nominal]
\* The sets of results analysed: at most one entry is not the nominal one,
\* it is another payload or Failed
RawDataSets ==
    {RawDataWith(0, None)}
    \cup UNION {{RawDataWith(i, p) : p \in all_commands[i].others \cup {None}} :
                   i \in 1..Len(all_commands)}

\* The dict of lines 651-666 from what the eight parsers returned
HealthOf(results, name) ==
    IF FirstRaised(results, 1) # "" THEN Raise(FirstRaised(results, 1))
    ELSE Ret([system |-> results[1].val, cpu |-> results[2].val,
              filesystem |-> results[3].val, errors |-> results[4].val,
              features |-> results[5].val, interfaces |-> results[6].val,
              management |-> results[7].val, lldp |-> results[8].val, hostname |-> name])

\* health_data = {...} (lines 651-666) for a raw_data and a hostname
health_data_of(raw, name) ==
    HealthOf(<< parse_system_summary(raw["show version"]),
                parse_cpu_status(raw["show processes top once"]),
                parse_filesystem_usage(raw["bash df -h"]),
                parse_system_errors(raw["bash ls -l /var/core"], raw["show agent logs crash"],
                                    raw["show logging"], raw["show pci"]),
                parse_feature_health(raw["show ip bgp summary"], raw["show mlag"],
                                     raw["show vxlan vni"]),
                parse_interface_health(raw["show interfaces counters errors"],
                                       raw["show interfaces counters discards"]),
                parse_management_health(raw["show run"], raw["show spanning-tree root detail"]),
                parse_lldp_neighbors(raw["show lldp neighbors"]) >>, name)

\* Lines 651-669 on a raw_data at the time `now`: the health data and the
\* report, or the exception raised on the way
AnalysisOf(health, now) ==
    [health |-> health,
     report |-> IF Raised(health) THEN health ELSE format_summary_report(health.val, now)]

\* The process in which the analysis is run: raw_data and the hostname are
\* those of main(), the clock reads call.now, and health_data and report are
\* the names main() binds (lines 651 and 669), unbound before the first run.
AnalysisCalls == [fn : {"analysis"}, now : Timestamps, runs : {<<>>}]

InitAnalysis ==
    /\ pc = "analyze" /\ mode = "local" /\ eapi_usable = FALSE
    /\ hostname = Str("sw1") /\ ssh_host = "" /\ idx = 0
    /\ raw_data \in RawDataSets
    /\ health_data = NoValue /\ report = NoValue /\ log_file = NoValue
    /\ trace = <<>> /\ uncaught = "" /\ link = "up" /\ anomalies = 0
    /\ tty \in BOOLEAN /\ call \in AnalysisCalls

\* Time passes: the clock reads another time
Tick ==
    /\ call.fn = "analysis"
    /\ \E now \in Timestamps \ {call.now} : call' = [call EXCEPT !.now = now]
    /\ UNCHANGED <<run_vars, tty>>

\* Lines 651-669 are run once more in the same process: on the same
\* raw_data, at the time the clock reads now, with health_data and report
\* still bound to what the run before left. What the run gives is kept in
\* call.runs; nothing is assigned to raw_data or to the hostname.
RunAnalysis ==
    /\ call.fn = "analysis" /\ Len(call.runs) < MaxRuns
    /\ \E out \in {AnalysisOf(health_data_of(raw_data, hostname), call.now)} :
          /\ call' = [call EXCEPT !.runs = Append(@, [now |-> call.now, out |-> out])]
          /\ health_data' = IF Raised(out.health) THEN health_data ELSE out.health.val
          /\ report' = IF Raised(out.report) THEN report ELSE out.report.val
    /\ UNCHANGED <<pc, mode, eapi_usable, hostname, ssh_host, idx, raw_data, log_file,
                   trace, uncaught, link, anomalies, tty>>

NextAnalysis == Tick \/ RunAnalysis

SpecAnalysis == InitAnalysis /\ [][NextAnalysis]_vars

\* A report without the line that holds its generation time
WithoutTimestamp(r) ==
    IF Raised(r) THEN r
    ELSE SelectSeq(r.val.lines,
                   LAMBDA l : ~(Len(l) >= 2 /\ l[1] = "Timestamp" /\ l[2] = "(UTC)"))

\* The entry of health_data computed from the output of a command (lines
\* 651-666): "" for a command no parser is given
SectionOf(key) ==
    CASE key = "show version" -> "system"
      [] key = "show processes top once" -> "cpu"
      [] key = "bash df -h" -> "filesystem"
      [] key \in {"bash ls -l /var/core", "show agent logs crash",
                  "show logging", "show pci"} -> "errors"
      [] key \in {"show ip bgp summary", "show mlag", "show vxlan vni"} -> "features"
      [] key \in {"show interfaces counters errors",
                  "show interfaces counters discards"} -> "interfaces"
      [] key \in {"show run", "show spanning-tree root detail"} -> "management"
      [] key = "show lldp neighbors" -> "lldp"
      [] OTHER -> ""

\* The commands whose results are not those of `base`
Changed(raw, base) == {k \in DOMAIN raw : raw[k] # base[k]}

\* The entries of `health` that no changed command feeds are those of the
\* nominal results
OtherSectionsUntouched(changed, health, nominal) ==
    (~Raised(health) /\ ~Raised(nominal)) =>
        \A entry \in DOMAIN health.val \ {SectionOf(k) : k \in changed} :
            health.val[entry] = nominal.val[entry]

-----------------------------------------------------------------------------
(* The stability lines of the report against the parser's findings *)

\* A run of the analysis that gave a report, on a terminal
IsReportedRun(i) ==
    /\ call.fn = "analysis" /\ tty
    /\ i \in 1..Len(call.runs)
    /\ ~Raised(call.runs[i].out.report)

\* Whether `ls` is a run of consecutive lines of the report
HasLines(lines, ls) ==
    \E k \in 0..(Len(lines) - Len(ls)) : SubSeq(lines, k + 1, k + Len(ls)) = ls

\* The report holds the entry `label` with `text` marked as failing (or as Ok)
ShownAs(lines, label, failing, text) ==
    HasLines(lines, add(Lit(label),
                        FStr(<<Colors(IF failing THEN "FAIL" ELSE "OKGREEN"), text,
                               Colors("RESET")>>))[1])

\* What parse_system_errors found (lines 264-298): anything but the sentinel
\* it starts from
CoreFilesFound(e) == e.core_dumps # NoCoreFiles
AgentCrashesFound(e) == e.agent_crashes # NoAgentCrashes
PciErrorsFound(e) == e.pci_errors # NoPciErrors

\* C17: the 'Core Dumps', 'Agent Crashes' and 'PCI Errors' lines of the
\* report are marked failing exactly when parse_system_errors reported core
\* files, agent crash reports, offending PCI devices; the no-finding sentinel
\* is marked Ok.
C17_StabilitySeverityMatchesFinding ==
    \A i \in 1..MaxRuns :
        IsReportedRun(i) =>
            \E e \in {call.runs[i].out.health.val.errors} :
            \E lines \in {call.runs[i].out.report.val.lines} :
                /\ ShownAs(lines, <<"Core", "Dumps">>, CoreFilesFound(e),
                           IF CoreFilesFound(e) THEN FirstLine(StrOf(e.core_dumps))
                           ELSE StrOf(e.core_dumps))
                /\ ShownAs(lines, <<"Agent", "Crashes">>, AgentCrashesFound(e),
                           StrOf(e.agent_crashes))
                /\ ShownAs(lines, <<"PCI", "Errors">>, PciErrorsFound(e),
                           StrOf(e.pci_errors))

====
